---- MODULE Spec2Model ----
(***************************************************************************)
(* Handle layer of py-lmdb (src/lmdb/cpython.c): Environment, Database,    *)
(* Transaction, Cursor and Iterator objects, the intrusive invalidation    *)
(* tree that links them, and the calls they make into the storage engine.  *)
(* The engine (lmdb.h / mdb.c) is not part of the file; the operators      *)
(* named mdb_* give the behaviour the handle layer relies on.              *)
(***************************************************************************)
EXTENDS Integers, Sequences, FiniteSets, TLC

\* ---------------------------------------------------------------- bounds
MaxTrans == 3
MaxCurs == 2
MaxIter == 1
MaxDb == 1
MaxKey == 2
MaxVal == 2

TransIds == 1..MaxTrans
CursIds == 1..MaxCurs
IterIds == 1..MaxIter
DbIds == 0..MaxDb
Keys == 1..MaxKey
Vals == 1..MaxVal

\* A NULL MDB_txn* / MDB_cursor* / absent key or value (mv_size = 0).
NoTxn == 0
\* A key longer than the engine accepts: a well-formed buffer that mdb_put
\* and mdb_del refuse with MDB_BAD_VALSIZE.
BadKey == MaxKey + 1
\* Engine-side slot of the transaction an Environment-level call begins and
\* ends inside itself (its MDB_txn* lives in a local variable).
ImplicitTxn == MaxTrans + 1
EngTxnIds == 1..ImplicitTxn

\* ------------------------------------------------------------ object ids
NULL == <<"N", 0>>
ENV == <<"E", 0>>
T(i) == <<"T", i>>
C(i) == <<"C", i>>
D(i) == <<"D", i>>
I(i) == <<"I", i>>
MainDb == D(0)
Nodes == {ENV} \cup {T(i) : i \in TransIds} \cup {C(i) : i \in CursIds}
         \cup {D(i) : i \in DbIds} \cup {I(i) : i \in IterIds}

VARIABLES
    heap,      \* the fields of every Python object of the module
    engine,    \* the storage engine: environment, transactions, cursors, data
    refs,      \* the handles the calling program still holds a reference to
    log,       \* the engine calls made by the last public operation, in order
    fault,     \* "none", or how the process died (undefined behaviour, hang)
    lastOp,    \* the last public operation: name, receiver, outcome, value
    hist,      \* history: how each Transaction ended, what each handle was made from
    host       \* the host lock, the drop_gil switch, and where each thread stands

vars == <<heap, engine, refs, log, fault, lastOp, hist, host>>

\* ------------------------------------------------------- working record
\* The handlers are written as functions of one record bundling the state:
\* h the objects, e the engine, log the calls so far, rc/out the status and
\* value of the last engine call, flags the flag word of the last store,
\* uaf how a read of freed memory turns out, ev the steps of the operation
\* in the order they ran.
Ok(s) == s.fault = "none"
Fault(s, tag) == IF Ok(s) THEN [s EXCEPT !.fault = tag] ELSE s

\* One step of an operation: an engine call (n the engine object), or a
\* step of the handle layer on handle n ("valid0": valid = 0, with the
\* handles beneath n still valid at that moment; "unlink"; "release": the
\* owner reference to the parent is dropped; "free": PyObject_Del).
Ev(s, name, n, bad) ==
    IF Ok(s) THEN [s EXCEPT !.ev = Append(@, [ev |-> name, n |-> n, bad |-> bad])]
    ELSE s
Call(s, name, id) ==
    Ev([s EXCEPT !.log = Append(@, <<name, id>>)], name, <<"eng", id>>, {})
Rc(s, rc) == [s EXCEPT !.rc = rc]

\* An optional argument of a call, or a pointer that may be NULL: Absent
\* when the caller does not pass it.  parse_args stores only the arguments
\* passed, so a field left out keeps the value of the struct's initialiser.
Absent == <<>>
Given(x) == <<x>>
ArgOr(a, initial) == IF a = Absent THEN initial ELSE a[1]

\* A flag word with none of MDB_NOOVERWRITE, MDB_NODUPDATA, MDB_APPEND set.
NoFlags == [nodupdata |-> FALSE, nooverwrite |-> FALSE, append |-> FALSE]

EmptyView == [k \in Keys |-> 0]
\* The content of the named database: the values held under each key.
NoDups == [k \in Keys |-> {}]
Present(view) == {k \in Keys : view[k] # 0}
SetMin(S) == CHOOSE x \in S : \A y \in S : x <= y
SetMax(S) == CHOOSE x \in S : \A y \in S : x >= y

\* ============================================================== engine
\* The engine's contract as the handle layer uses it: snapshot reads, one
\* top-level writer, nested write transactions that merge into their parent
\* on commit, and resources that must not be touched once released.

ActiveChildren(s, t) ==
    {c \in EngTxnIds : s.e.txn[c].st = "active" /\ s.e.txn[c].parent = t}

WriterActive(s) ==
    \E t \in EngTxnIds : /\ s.e.txn[t].st = "active"
                         /\ s.e.txn[t].write
                         /\ s.e.txn[t].parent = NoTxn

\* The engine finishes transaction t, its children being finished: a commit
\* publishes the view to the parent (nested) or to the store (top-level);
\* cursors of a write transaction still open are freed with it ("reaped").
EngFinish(s, t, commit) ==
    LET me == s.e.txn[t]
        publish == commit /\ me.write
        mine == {c \in CursIds : /\ s.e.cur[c].st = "open"
                                  /\ s.e.cur[c].txn = t
                                  /\ me.write}
    IN  [s EXCEPT !.e.store = IF publish /\ me.parent = NoTxn THEN me.view ELSE @,
                  !.e.dstore = IF publish /\ me.parent = NoTxn THEN me.dups ELSE @,
                  !.e.txn = [x \in EngTxnIds |->
                               IF x = t
                               THEN [st |-> "done", write |-> FALSE,
                                     parent |-> NoTxn, view |-> EmptyView,
                                     dups |-> NoDups]
                               ELSE IF publish /\ x = me.parent
                                    THEN [@[x] EXCEPT !.view = me.view,
                                                      !.dups = me.dups]
                               ELSE @[x]],
                  !.e.cur = [c \in CursIds |->
                               IF c \in mine THEN [@[c] EXCEPT !.st = "reaped"]
                               ELSE @[c]],
                  !.e.rel = [n \in Nodes |->
                               IF n = T(t) \/ n \in {C(c) : c \in mine}
                               THEN @[n] + 1 ELSE @[n]]]

RECURSIVE EngEnd(_, _, _)
\* The engine finishes transaction t: an active child is finished first.
EngEnd(s, t, commit) ==
    LET kids == ActiveChildren(s, t) IN
    EngFinish(IF kids = {} THEN s ELSE EngEnd(s, CHOOSE k \in kids : TRUE, commit),
              t, commit)

TxnUsable(s, txn) == txn # NoTxn /\ s.e.txn[txn].st = "active"

\* While a nested transaction is active its parent may only be committed
\* or aborted: the engine refuses anything else with MDB_BAD_TXN.
TxnBlocked(s, txn) == ActiveChildren(s, txn) # {}

\* An engine without the writer lock.
mdb_txn_begin_unlocked(s, envp, parent, rdonly, id, fail) ==
    IF ~Ok(s) THEN s ELSE
    LET s1 == Call(s, "mdb_txn_begin", id) IN
    IF envp = NULL \/ s.e.env # "open" THEN Fault(s1, "env_used_after_close")
    ELSE IF parent # NoTxn /\ ~TxnUsable(s, parent)
         THEN Fault(s1, "txn_used_after_release")
    ELSE IF fail THEN Rc(s1, "ERR")
    ELSE IF parent # NoTxn
         THEN IF TxnBlocked(s, parent) THEN Rc(s1, "MDB_BAD_TXN")
              ELSE IF rdonly \/ ~s.e.txn[parent].write THEN Rc(s1, "EINVAL")
              ELSE [s1 EXCEPT !.rc = "OK",
                              !.e.txn[id] = [st |-> "active", write |-> TRUE,
                                             parent |-> parent,
                                             view |-> s.e.txn[parent].view,
                                             dups |-> s.e.txn[parent].dups]]
    ELSE [s1 EXCEPT !.rc = "OK",
                    !.e.txn[id] = [st |-> "active", write |-> ~rdonly,
                                   parent |-> NoTxn, view |-> s.e.store,
                                   dups |-> s.e.dstore]]

mdb_txn_begin(s, envp, parent, rdonly, id, fail) ==
    IF ~Ok(s) THEN s ELSE
    LET s1 == Call(s, "mdb_txn_begin", id) IN
    IF envp = NULL \/ s.e.env # "open" THEN Fault(s1, "env_used_after_close")
    ELSE IF parent # NoTxn /\ ~TxnUsable(s, parent)
         THEN Fault(s1, "txn_used_after_release")
    ELSE IF fail THEN Rc(s1, "ERR")
    ELSE IF parent # NoTxn
         THEN IF TxnBlocked(s, parent) THEN Rc(s1, "MDB_BAD_TXN")
              ELSE IF rdonly \/ ~s.e.txn[parent].write THEN Rc(s1, "EINVAL")
              ELSE [s1 EXCEPT !.rc = "OK",
                              !.e.txn[id] = [st |-> "active", write |-> TRUE,
                                             parent |-> parent,
                                             view |-> s.e.txn[parent].view,
                                             dups |-> s.e.txn[parent].dups]]
    ELSE IF ~rdonly /\ WriterActive(s) THEN Fault(s1, "writer_self_deadlock")
    ELSE [s1 EXCEPT !.rc = "OK",
                    !.e.txn[id] = [st |-> "active", write |-> ~rdonly,
                                   parent |-> NoTxn, view |-> s.e.store,
                                   dups |-> s.e.dstore]]

\* e.rel[n]: how many times the engine resource behind handle n has been
\* released, by a call of the handle layer or by the engine itself.
CountRelease(s, n) == [s EXCEPT !.e.rel[n] = @ + 1]

mdb_txn_end(s, txn, commit, fail) ==
    IF ~Ok(s) THEN s ELSE
    LET s1 == Call(s, IF commit THEN "mdb_txn_commit" ELSE "mdb_txn_abort", txn) IN
    IF ~TxnUsable(s, txn)
    THEN Fault(IF txn \in TransIds THEN CountRelease(s1, T(txn)) ELSE s1,
               "txn_released_twice")
    ELSE Rc(EngEnd(s1, txn, commit /\ ~fail), IF commit /\ fail THEN "ERR" ELSE "OK")

mdb_txn_abort(s, txn) == mdb_txn_end(s, txn, FALSE, FALSE)
mdb_txn_commit(s, txn, fail) == mdb_txn_end(s, txn, TRUE, fail)

mdb_env_close(s, envp) ==
    IF ~Ok(s) THEN s ELSE
    LET s1 == CountRelease(Call(s, "mdb_env_close", 0), ENV) IN
    IF envp = NULL \/ s.e.env # "open" THEN Fault(s1, "env_closed_twice")
    ELSE IF \E t \in EngTxnIds : s.e.txn[t].st = "active"
         THEN Fault(s1, "env_closed_under_txn")
    ELSE [s1 EXCEPT !.e.env = "closed"]

\* Opens the main database (named = FALSE) or the named one, which is
\* created on its first opening and keeps the MDB_DUPSORT flag it was
\* created with.
mdb_dbi_open(s, txn, named, dupsort, fail) ==
    IF ~Ok(s) THEN s ELSE
    LET s1 == Call(s, "mdb_dbi_open", txn) IN
    IF ~TxnUsable(s, txn) THEN Fault(s1, "txn_used_after_release")
    ELSE IF TxnBlocked(s, txn) THEN Rc(s1, "MDB_BAD_TXN")
    ELSE IF fail THEN Rc(s1, "ERR")
    ELSE [s1 EXCEPT !.rc = "OK",
                    !.e.dupsort = @ \/ (named /\ dupsort /\ ~s.e.created),
                    !.e.created = @ \/ named]

mdb_env_call(s, name, envp) ==
    IF ~Ok(s) THEN s ELSE
    LET s1 == Call(s, name, 0) IN
    IF envp = NULL \/ s.e.env # "open" THEN Fault(s1, "env_used_after_close")
    ELSE Rc(s1, "OK")

\* dbi 0 is the main database, dbi 1 the named one; of the values under a
\* key of the named database the first in sort order is returned.
mdb_get(s, txn, dbi, k) ==
    IF ~Ok(s) THEN s ELSE
    LET s1 == Call(s, "mdb_get", txn) IN
    IF ~TxnUsable(s, txn) THEN Fault(s1, "txn_used_after_release")
    ELSE IF TxnBlocked(s, txn) THEN Rc(s1, "MDB_BAD_TXN")
    ELSE LET v == IF dbi = 0 THEN s.e.txn[txn].view[k]
                  ELSE IF s.e.txn[txn].dups[k] = {} THEN 0
                  ELSE SetMin(s.e.txn[txn].dups[k])
         IN  IF v = 0 THEN Rc(s1, "MDB_NOTFOUND")
             ELSE [s1 EXCEPT !.rc = "OK", !.out = v]

\* flags: [nooverwrite, nodupdata, append]; the main database holds one
\* value per key, so MDB_NODUPDATA has nothing to forbid there.
PutView(view, k, v, flags) ==
    IF flags.nooverwrite /\ view[k] # 0 THEN view
    ELSE IF flags.append /\ Present(view) # {} /\ k <= SetMax(Present(view)) THEN view
    ELSE [view EXCEPT ![k] = v]

PutRc(view, k, v, flags) ==
    IF flags.nooverwrite /\ view[k] # 0 THEN "MDB_KEYEXIST"
    ELSE IF flags.append /\ Present(view) # {} /\ k <= SetMax(Present(view))
         THEN "MDB_KEYEXIST"
    ELSE "OK"

\* A store into the named database: with MDB_DUPSORT the value joins the
\* values of the key (MDB_NODUPDATA refuses a pair already there), without
\* it the value replaces them.
DupPutRc(set, v, flags, dupsort) ==
    IF flags.nooverwrite /\ set # {} THEN "MDB_KEYEXIST"
    ELSE IF dupsort /\ flags.nodupdata /\ v \in set THEN "MDB_KEYEXIST"
    ELSE "OK"

DupPut(set, v, flags, dupsort) ==
    IF DupPutRc(set, v, flags, dupsort) # "OK" THEN set
    ELSE IF dupsort THEN set \cup {v}
    ELSE {v}

mdb_put(s, txn, dbi, k, v, flags) ==
    IF ~Ok(s) THEN s ELSE
    LET s1 == [Call(s, "mdb_put", txn) EXCEPT !.flags = flags] IN
    IF ~TxnUsable(s, txn) THEN Fault(s1, "txn_used_after_release")
    ELSE IF TxnBlocked(s, txn) THEN Rc(s1, "MDB_BAD_TXN")
    ELSE IF ~s.e.txn[txn].write THEN Rc(s1, "EACCES")
    ELSE IF k = BadKey THEN Rc(s1, "MDB_BAD_VALSIZE")
    ELSE IF dbi # 0
         THEN [s1 EXCEPT !.rc = DupPutRc(s.e.txn[txn].dups[k], v, flags, s.e.dupsort),
                         !.e.txn[txn].dups[k] = DupPut(@, v, flags, s.e.dupsort)]
    ELSE LET view == s.e.txn[txn].view IN
         [s1 EXCEPT !.rc = PutRc(view, k, v, flags),
                    !.e.txn[txn].view = PutView(view, k, v, flags)]

\* data = Absent is a NULL data pointer: every value of the key goes;
\* otherwise only the exact pair.
mdb_del(s, txn, dbi, k, data) ==
    IF ~Ok(s) THEN s ELSE
    LET s1 == Call(s, "mdb_del", txn) IN
    IF ~TxnUsable(s, txn) THEN Fault(s1, "txn_used_after_release")
    ELSE IF TxnBlocked(s, txn) THEN Rc(s1, "MDB_BAD_TXN")
    ELSE IF ~s.e.txn[txn].write THEN Rc(s1, "EACCES")
    ELSE IF k = BadKey THEN Rc(s1, "MDB_BAD_VALSIZE")
    ELSE IF dbi # 0
         THEN LET set == s.e.txn[txn].dups[k] IN
              IF set = {} \/ (data # Absent /\ data[1] \notin set)
              THEN Rc(s1, "MDB_NOTFOUND")
              ELSE [s1 EXCEPT !.rc = "OK",
                              !.e.txn[txn].dups[k] =
                                  IF data = Absent THEN {} ELSE set \ {data[1]}]
    ELSE LET view == s.e.txn[txn].view IN
         IF view[k] = 0 \/ (data # Absent /\ view[k] # data[1])
         THEN Rc(s1, "MDB_NOTFOUND")
         ELSE [s1 EXCEPT !.rc = "OK", !.e.txn[txn].view[k] = 0]

CursorUsable(s, c) ==
    /\ c # 0
    /\ s.e.cur[c].st = "open"
    /\ TxnUsable(s, s.e.cur[c].txn)

mdb_cursor_open(s, txn, c, fail) ==
    IF ~Ok(s) THEN s ELSE
    LET s1 == Call(s, "mdb_cursor_open", c) IN
    IF ~TxnUsable(s, txn) THEN Fault(s1, "txn_used_after_release")
    ELSE IF TxnBlocked(s, txn) THEN Rc(s1, "MDB_BAD_TXN")
    ELSE IF fail THEN Rc(s1, "ERR")
    ELSE [s1 EXCEPT !.rc = "OK",
                    !.e.cur[c] = [st |-> "open", txn |-> txn, pos |-> 0, del |-> FALSE]]

mdb_cursor_close(s, c) ==
    IF ~Ok(s) THEN s ELSE
    LET s1 == Call(s, "mdb_cursor_close", c) IN
    IF c = 0 THEN Fault(s1, "cursor_closed_twice")
    ELSE IF s.e.cur[c].st # "open" THEN Fault(CountRelease(s1, C(c)), "cursor_closed_twice")
    ELSE [CountRelease(s1, C(c)) EXCEPT !.e.cur[c].st = "closed"]

\* The key a positioning mode lands on (0: none), from position pos.
\* After a delete the cursor already rests on the successor (del), so the
\* next MDB_NEXT returns that entry instead of stepping over it.
Target(view, pos, del, key, op) ==
    LET P == Present(view)
        above(k) == {x \in P : x > k}
        below(k) == {x \in P : x < k}
        from(k) == {x \in P : x >= k}
        least(S) == IF S = {} THEN 0 ELSE SetMin(S)
        most(S) == IF S = {} THEN 0 ELSE SetMax(S)
    IN  CASE op = "MDB_FIRST" -> least(P)
          [] op = "MDB_LAST" -> most(P)
          [] op = "MDB_NEXT" -> IF pos = 0 THEN (IF del THEN 0 ELSE least(P))
                                ELSE IF del THEN pos ELSE least(above(pos))
          [] op = "MDB_PREV" -> IF pos = 0 THEN most(P) ELSE most(below(pos))
          [] op = "MDB_SET_KEY" -> IF key \in P THEN key ELSE 0
          [] op = "MDB_SET_RANGE" -> least(from(key))
          [] OTHER -> IF pos \in P THEN pos ELSE 0

mdb_cursor_get(s, c, key, op) ==
    IF ~Ok(s) THEN s ELSE
    LET s1 == Call(s, "mdb_cursor_get", c) IN
    IF ~CursorUsable(s, c) THEN Fault(s1, "cursor_used_after_close")
    ELSE IF TxnBlocked(s, s.e.cur[c].txn) THEN Rc(s1, "MDB_BAD_TXN")
    ELSE LET cur == s.e.cur[c]
             view == s.e.txn[cur.txn].view
             k == Target(view, cur.pos, cur.del, key, op)
         IN  IF op = "MDB_GET_CURRENT" /\ cur.pos = 0 THEN Rc(s1, "EINVAL")
             ELSE IF k = 0
                  THEN [s1 EXCEPT !.rc = "MDB_NOTFOUND",
                                  !.e.cur[c].pos = IF op \in {"MDB_NEXT", "MDB_PREV",
                                                              "MDB_GET_CURRENT"}
                                                   THEN cur.pos ELSE 0,
                                  !.e.cur[c].del = FALSE]
                  ELSE [s1 EXCEPT !.rc = "OK", !.kv = <<k, view[k]>>,
                                  !.e.cur[c].pos = k,
                                  !.e.cur[c].del = (op = "MDB_GET_CURRENT" /\ cur.del)]

\* Deletes the entry under the cursor; the cursor then rests on the entry
\* that followed it (none: it is left without a position).
mdb_cursor_del(s, c) ==
    IF ~Ok(s) THEN s ELSE
    LET s1 == Call(s, "mdb_cursor_del", c) IN
    IF ~CursorUsable(s, c) THEN Fault(s1, "cursor_used_after_close")
    ELSE IF TxnBlocked(s, s.e.cur[c].txn) THEN Rc(s1, "MDB_BAD_TXN")
    ELSE LET cur == s.e.cur[c]
             view == s.e.txn[cur.txn].view
             after == {x \in Present(view) : x > cur.pos}
         IN  IF ~s.e.txn[cur.txn].write THEN Rc(s1, "EACCES")
             ELSE IF cur.pos = 0 \/ view[cur.pos] = 0 THEN Rc(s1, "EINVAL")
             ELSE [s1 EXCEPT !.rc = "OK",
                             !.e.txn[cur.txn].view[cur.pos] = 0,
                             !.e.cur[c].pos = IF after = {} THEN 0 ELSE SetMin(after),
                             !.e.cur[c].del = TRUE]

\* Stores through the cursor and leaves the cursor on the stored key.
mdb_cursor_put(s, c, k, v, flags) ==
    IF ~Ok(s) THEN s ELSE
    LET s1 == [Call(s, "mdb_cursor_put", c) EXCEPT !.flags = flags] IN
    IF ~CursorUsable(s, c) THEN Fault(s1, "cursor_used_after_close")
    ELSE IF TxnBlocked(s, s.e.cur[c].txn) THEN Rc(s1, "MDB_BAD_TXN")
    ELSE LET cur == s.e.cur[c]
             view == s.e.txn[cur.txn].view
             rc == PutRc(view, k, v, flags)
         IN  IF ~s.e.txn[cur.txn].write THEN Rc(s1, "EACCES")
             ELSE IF rc # "OK" THEN Rc(s1, rc)
             ELSE [s1 EXCEPT !.rc = "OK",
                             !.e.txn[cur.txn].view = PutView(view, k, v, flags),
                             !.e.cur[c].pos = k, !.e.cur[c].del = FALSE]

\* The number of values under the cursor's key (one per key in the main
\* database); EINVAL on a cursor without a position.
mdb_cursor_count(s, c) ==
    IF ~Ok(s) THEN s ELSE
    LET s1 == Call(s, "mdb_cursor_count", c) IN
    IF ~CursorUsable(s, c) THEN Fault(s1, "cursor_used_after_close")
    ELSE IF TxnBlocked(s, s.e.cur[c].txn) THEN Rc(s1, "MDB_BAD_TXN")
    ELSE IF s.e.cur[c].pos = 0 THEN Rc(s1, "EINVAL")
    ELSE [s1 EXCEPT !.rc = "OK", !.out = 1]

\* Empties the database (the main database cannot be removed).
mdb_drop(s, txn, dbi) ==
    IF ~Ok(s) THEN s ELSE
    LET s1 == Call(s, "mdb_drop", txn) IN
    IF ~TxnUsable(s, txn) THEN Fault(s1, "txn_used_after_release")
    ELSE IF TxnBlocked(s, txn) THEN Rc(s1, "MDB_BAD_TXN")
    ELSE IF ~s.e.txn[txn].write THEN Rc(s1, "EACCES")
    ELSE IF dbi # 0 THEN [s1 EXCEPT !.rc = "OK", !.e.txn[txn].dups = NoDups]
    ELSE [s1 EXCEPT !.rc = "OK", !.e.txn[txn].view = EmptyView]

\* ====================================================== invalidation tree
MdbEnv == <<"M", 0>>

\* OBJECT_INIT: a fresh object, unlinked, without children, valid.
OBJECT_INIT(s, o) ==
    [s EXCEPT !.h.sprev[o] = NULL, !.h.snext[o] = NULL,
              !.h.chead[o] = NULL, !.h.valid[o] = TRUE]

\* unlink_child that leaves the successor's back link alone.
unlink_child_keeps_prev(s, parent, child) ==
    IF parent = NULL THEN s
    ELSE LET prev == s.h.sprev[child]
             next == s.h.snext[child]
             s1 == IF prev # NULL THEN [s EXCEPT !.h.snext[prev] = next]
                   ELSE IF s.h.chead[parent] = child
                        THEN [s EXCEPT !.h.chead[parent] = next]
                        ELSE s
         IN  Ev([s1 EXCEPT !.h.sprev[child] = NULL, !.h.snext[child] = NULL],
                "unlink", child, {})

link_child(s, parent, child) ==
    LET sibling == s.h.chead[parent] IN
    IF sibling # NULL
    THEN [s EXCEPT !.h.snext[child] = sibling,
                   !.h.sprev[sibling] = child,
                   !.h.chead[parent] = child]
    ELSE [s EXCEPT !.h.chead[parent] = child]

unlink_child(s, parent, child) ==
    IF parent = NULL THEN s
    ELSE LET prev == s.h.sprev[child]
             next == s.h.snext[child]
             s1 == IF prev # NULL THEN [s EXCEPT !.h.snext[prev] = next]
                   ELSE IF s.h.chead[parent] = child
                        THEN [s EXCEPT !.h.chead[parent] = next]
                        ELSE s
             s2 == IF next # NULL THEN [s1 EXCEPT !.h.sprev[next] = prev] ELSE s1
         IN  Ev([s2 EXCEPT !.h.sprev[child] = NULL, !.h.snext[child] = NULL],
                "unlink", child, {})

\* The handles in a children list, from its head.
RECURSIVE ChainFrom(_, _)
ChainFrom(h, n) == IF n = NULL THEN {} ELSE {n} \cup ChainFrom(h, h.snext[n])

\* The handles beneath n: linked in its children list, or pointing to it
\* as their Transaction / Environment.
Beneath(h, n) ==
    ChainFrom(h, h.chead[n])
        \cup {C(c) : c \in {x \in CursIds : h.curs_trans[x] = n}}
        \cup {T(x) : x \in {y \in TransIds : h.trans_env[y] = n}}
        \cup {D(d) : d \in {x \in DbIds : h.db_env[x] = n}}

\* self->valid = 0.
ClearValid(s, n) ==
    IF Ok(s)
    THEN [Ev(s, "valid0", n, {m \in Beneath(s.h, n) : s.h.valid[m]})
              EXCEPT !.h.valid[n] = FALSE]
    ELSE s

RECURSIVE invalidate_from(_, _)
RECURSIVE tp_clear(_, _)
RECURSIVE tp_dealloc(_, _)
RECURSIVE Py_DECREF(_, _)
RECURSIVE db_clear(_, _)
RECURSIVE env_clear(_)
RECURSIVE cursor_clear(_, _)
RECURSIVE trans_clear(_, _)

\* The loop of invalidate(): the next sibling is read before the child's
\* tp_clear runs, because clearing unlinks the child.
invalidate_from(s, child) ==
    IF child = NULL \/ ~Ok(s) THEN s
    ELSE IF s.h.obj[child] # "live" THEN Fault(s, "use_after_free")
    ELSE LET next == s.h.snext[child] IN
         invalidate_from(tp_clear(s, child), next)

invalidate(s, parent) == invalidate_from(s, s.h.chead[parent])

\* Py_DECREF / Py_CLEAR's decrement: the object is destroyed (tp_dealloc)
\* when its last reference goes.
Py_DECREF(s, o) ==
    IF ~Ok(s) THEN s
    ELSE IF s.h.obj[o] # "live" THEN Fault(s, "use_after_free")
    ELSE LET s1 == [s EXCEPT !.h.refcnt[o] = @ - 1] IN
         IF s1.h.refcnt[o] > 0 THEN s1 ELSE tp_dealloc(s1, o)

Py_INCREF(s, o) == [s EXCEPT !.h.refcnt[o] = @ + 1]

PyObject_Del(s, o) ==
    IF Ok(s) THEN Ev([s EXCEPT !.h.obj[o] = "freed"], "free", o, {}) ELSE s

\* db_clear that keeps the Environment link.
db_clear_keeps_env(s, d) ==
    LET e == s.h.db_env[d]
        s1 == IF e # NULL THEN unlink_child(s, e, D(d)) ELSE s
    IN  ClearValid(s1, D(d))

\* db_clear: unlink from the Environment, env = NULL, valid = 0.
db_clear(s, d) ==
    LET e == s.h.db_env[d]
        s1 == IF e # NULL
              THEN [unlink_child(s, e, D(d)) EXCEPT !.h.db_env[d] = NULL]
              ELSE s
    IN  ClearValid(s1, D(d))

db_dealloc(s, d) == PyObject_Del(db_clear(s, d), D(d))

\* env_clear: INVALIDATE, mdb_env_close, then Py_CLEAR(main_db).
env_clear(s) ==
    LET clear_main(s1) ==
            IF ~Ok(s1) \/ s1.h.main_db = NULL THEN s1
            ELSE Py_DECREF([s1 EXCEPT !.h.main_db = NULL], s1.h.main_db)
        close(a) ==
            [(IF Ok(a) THEN mdb_env_close(a, a.h.env_env) ELSE a)
                EXCEPT !.h.env_env = NULL]
    IN  clear_main(IF s.h.env_env # NULL THEN close(invalidate(s, ENV)) ELSE s)

env_dealloc(s) == PyObject_Del(env_clear(s), ENV)

\* ------------------------------------------------------- buffer objects
\* The buffer objects handed out in buffering mode: one for the keys and one
\* for the values of each Cursor (key_buf, val_buf), one for the values read
\* through each Transaction (its key_buf).  h.bufp[b] is the owner's pointer
\* to the object (NULL: none); h.buf[b] the object, which lives on in the
\* program's hands: b_ptr is NULL before the object is made, Static for the
\* literal "", or the engine memory of a datum read in an engine transaction.
KeyBuf(c) == <<"K", c>>
ValBuf(c) == <<"V", c>>
GetBuf(t) == <<"G", t>>
Bufs == {KeyBuf(c) : c \in CursIds} \cup {ValBuf(c) : c \in CursIds}
            \cup {GetBuf(t) : t \in TransIds}
Static == <<"static", 0, 0>>
EngineMem(txn, x) == <<"engine", txn, x>>
\* mv_size of a datum: 0 for the empty one.
Size(x) == IF x = 0 THEN 0 ELSE 1

SET_BUFFER(s, buf, ptr, size) ==
    [s EXCEPT !.h.buf[buf] = [b_ptr |-> ptr, b_size |-> size]]

\* buffer_from_val(bufp, val): the object is made when *bufp is NULL and
\* pointed at the datum x held in the memory of engine transaction txn.
buffer_from_val(s, bufp, txn, x) ==
    SET_BUFFER([s EXCEPT !.h.bufp[bufp] = bufp], bufp, EngineMem(txn, x), Size(x))

\* if(buf) SET_BUFFER(buf, "", 0)
ResetBuf(s, buf) == IF buf = NULL THEN s ELSE SET_BUFFER(s, buf, Static, 0)

\* Faulty variant of cursor_clear: the buffer objects are released as they
\* are, still pointing at the last datum.
cursor_clear_keeps_views(s, c) ==
    LET n == C(c)
        clear_trans(s1) ==
            IF ~Ok(s1) \/ s1.h.curs_trans[c] = NULL THEN s1
            ELSE Py_DECREF(Ev([s1 EXCEPT !.h.curs_trans[c] = NULL], "release", n, {}),
                           s1.h.curs_trans[c])
        clear_bufs(s3) ==
            IF ~Ok(s3) THEN s3
            ELSE [s3 EXCEPT !.h.bufp[KeyBuf(c)] = NULL, !.h.bufp[ValBuf(c)] = NULL,
                            !.h.item_tup[c] = FALSE]
        close(b) == ClearValid(mdb_cursor_close(b, b.h.curs_curs[c]), n)
        unlink(a) == close(unlink_child(a, a.h.curs_trans[c], n))
    IN  IF ~Ok(s) THEN s
        ELSE clear_trans(clear_bufs(IF s.h.valid[n] THEN unlink(invalidate(s, n)) ELSE s))

\* Faulty variant of cursor_clear: the Cursor is torn down but its valid
\* flag is left set.
cursor_clear_keeps_valid(s, c) ==
    LET n == C(c)
        clear_trans(s1) ==
            IF ~Ok(s1) \/ s1.h.curs_trans[c] = NULL THEN s1
            ELSE Py_DECREF(Ev([s1 EXCEPT !.h.curs_trans[c] = NULL], "release", n, {}),
                           s1.h.curs_trans[c])
        clear_bufs(s3) ==
            IF ~Ok(s3) THEN s3
            ELSE [ResetBuf(ResetBuf(s3, s3.h.bufp[KeyBuf(c)]), s3.h.bufp[ValBuf(c)])
                     EXCEPT !.h.bufp[KeyBuf(c)] = NULL, !.h.bufp[ValBuf(c)] = NULL,
                            !.h.item_tup[c] = FALSE]
        close(b) == mdb_cursor_close(b, b.h.curs_curs[c])
        unlink(a) == close(unlink_child(a, a.h.curs_trans[c], n))
    IN  IF ~Ok(s) THEN s
        ELSE clear_trans(clear_bufs(IF s.h.valid[n] THEN unlink(invalidate(s, n)) ELSE s))

\* cursor_clear: if valid, INVALIDATE, UNLINK_CHILD, mdb_cursor_close and
\* valid = 0; then each buffer object is set to the empty literal and
\* released, the pair is released, and Py_CLEAR(trans).
cursor_clear(s, c) ==
    LET n == C(c)
        clear_trans(s1) ==
            IF ~Ok(s1) \/ s1.h.curs_trans[c] = NULL THEN s1
            ELSE Py_DECREF(Ev([s1 EXCEPT !.h.curs_trans[c] = NULL], "release", n, {}),
                           s1.h.curs_trans[c])
        clear_bufs(s3) ==
            IF ~Ok(s3) THEN s3
            ELSE [ResetBuf(ResetBuf(s3, s3.h.bufp[KeyBuf(c)]), s3.h.bufp[ValBuf(c)])
                     EXCEPT !.h.bufp[KeyBuf(c)] = NULL, !.h.bufp[ValBuf(c)] = NULL,
                            !.h.item_tup[c] = FALSE]
        close(b) == ClearValid(mdb_cursor_close(b, b.h.curs_curs[c]), n)
        unlink(a) == close(unlink_child(a, a.h.curs_trans[c], n))
    IN  IF ~Ok(s) THEN s
        ELSE clear_trans(clear_bufs(IF s.h.valid[n] THEN unlink(invalidate(s, n)) ELSE s))

cursor_dealloc(s, c) == PyObject_Del(cursor_clear(s, c), C(c))

\* trans_clear runs for a cascade and for destruction. INVALIDATE clears the
\* Cursors, each dropping its reference to the Transaction; when those were
\* the only references the Transaction is destroyed inside the loop, and the
\* statements after the loop read and write freed memory (s.uaf: the stale
\* fields left by the destructor, or garbage).  The steps "clear" and
\* "cleared" mark the entry to and the return from the routine.
trans_clear(s, t) ==
    LET n == T(t)
        clear_env(s2, e) ==
            IF e = NULL THEN s2
            ELSE Py_DECREF(Ev([s2 EXCEPT !.h.trans_env[t] = NULL], "release", n, {}), e)
        unlink(s1) ==
            IF ~Ok(s1) \/ s1.h.obj[n] = "freed" THEN s1
            ELSE clear_env(unlink_child(s1, s1.h.trans_env[t], n), s1.h.trans_env[t])
        abort(a) ==
            IF ~Ok(a) THEN a
            ELSE IF a.h.obj[n] = "freed"
                 THEN IF a.uaf THEN Fault(a, "use_after_free") ELSE a
            ELSE ClearValid(IF a.h.trans_txn[t] # NoTxn
                            THEN [mdb_txn_abort(a, a.h.trans_txn[t])
                                    EXCEPT !.h.trans_txn[t] = NoTxn]
                            ELSE a, n)
        enter(s0) == Ev(s0, "clear", n, {})
        leave(s3) == Ev(s3, "cleared", n, {})
    IN  IF ~Ok(s) THEN s
        ELSE leave(unlink(IF s.h.valid[n] THEN abort(invalidate(enter(s), n))
                          ELSE enter(s)))

trans_dealloc(s, t) == PyObject_Del(trans_clear(s, t), T(t))

\* Iterators are not in the tree: destruction drops the Cursor reference.
iter_dealloc(s, i) ==
    LET c == s.h.iter_curs[i] IN
    PyObject_Del(IF c = NULL THEN s
                 ELSE Py_DECREF([s EXCEPT !.h.iter_curs[i] = NULL], c), I(i))

tp_clear(s, o) ==
    CASE o[1] = "T" -> trans_clear(s, o[2])
      [] o[1] = "C" -> cursor_clear(s, o[2])
      [] o[1] = "D" -> db_clear(s, o[2])
      [] OTHER -> s

tp_dealloc(s, o) ==
    CASE o[1] = "T" -> trans_dealloc(s, o[2])
      [] o[1] = "C" -> cursor_dealloc(s, o[2])
      [] o[1] = "D" -> db_dealloc(s, o[2])
      [] o[1] = "I" -> iter_dealloc(s, o[2])
      [] OTHER -> env_dealloc(s)


\* ============================================================ results
\* What a public operation hands back: res is "ok" or the error raised,
\* ret the value returned.
Value(kind, key, val, node, list) ==
    [kind |-> kind, key |-> key, val |-> val, node |-> node, list |-> list]
None == Value("None", 0, 0, NULL, <<>>)
Bool(b) == Value(IF b THEN "True" ELSE "False", 0, 0, NULL, <<>>)
Val(v) == Value("val", 0, v, NULL, <<>>)
Key(k) == Value("key", k, 0, NULL, <<>>)
Item(k, v) == Value("item", k, v, NULL, <<>>)
Obj(o) == Value("obj", 0, 0, o, <<>>)
\* A buffer object, and the pair of the two buffer objects of a Cursor.
Buffer(b) == Value("buffer", 0, 0, b, <<>>)
Pair(k, v) == Value("pair", 0, 0, k, <<v>>)
List(l) == Value("list", 0, 0, NULL, l)
Default == Value("default", 0, 0, NULL, <<>>)

Ret(s, res, ret) == [s EXCEPT !.res = res, !.ret = ret]
Return(s, ret) == Ret(s, "ok", ret)
err_invalid(s) == Ret(s, "InvalidHandle", None)
err_set(s) == Ret(s, "EngineError", None)
type_error(s) == Ret(s, "TypeError", None)
\* No object id left within the bounds: the operation is not taken.
OutOfIds(s) == Ret(s, "bound", None)

FreeTrans(s) == {i \in TransIds : s.h.obj[T(i)] = "none"}
FreeCurs(s) == {i \in CursIds : s.h.obj[C(i)] = "none"}
FreeDbs(s) == {i \in DbIds : s.h.obj[D(i)] = "none"}
FreeIters(s) == {i \in IterIds : s.h.obj[I(i)] = "none"}

\* PyObject_New: a new object with one reference, held by the caller.
PyObject_New(s, o) == [s EXCEPT !.h.obj[o] = "live", !.h.refcnt[o] = 1]

\* ================================== shared by Transaction and Environment
\* The dbi of the Database a call works on: the db argument when one is
\* passed, the caller's default otherwise.
DbiOf(s, db, arg) == s.h.dbi[ArgOr(arg, db)[2]]

\* generic_get: key = 0 stands for a call without key.
generic_get(s, valid, txn, db, buffers, bptr, key, argdb) ==
    LET result(s1) ==
            IF ~Ok(s1) THEN s1
            ELSE IF s1.rc = "MDB_NOTFOUND" THEN Return(s1, Default)
            ELSE IF s1.rc # "OK" THEN err_set(s1)
            ELSE IF buffers
                 THEN Return(buffer_from_val(s1, bptr, txn, s1.out), Buffer(bptr))
            ELSE Return(s1, Val(s1.out))
    IN  IF ~valid THEN err_invalid(s)
        ELSE IF key = 0 THEN type_error(s)
        ELSE result(mdb_get(s, txn, DbiOf(s, db, argdb), key))

\* Faulty variant of PutFlags: overwrite = False is not turned into
\* MDB_NOOVERWRITE.
PutFlagsOverwriting(dupdata, overwrite, append) ==
    [nodupdata |-> ~dupdata, nooverwrite |-> FALSE, append |-> append]

\* The flag word put() builds from its dupdata / overwrite / append arguments.
PutFlags(dupdata, overwrite, append) ==
    [nodupdata |-> ~dupdata, nooverwrite |-> ~overwrite, append |-> append]

\* arg = {{0, 0}, {0, 0}, 0, 1, 0, db}: dupdata 0, overwrite 1, append 0.
generic_put(s, valid, txn, db, key, value, dupdata, overwrite, append, argdb) ==
    LET result(s1) ==
            IF ~Ok(s1) THEN s1
            ELSE IF s1.rc = "MDB_KEYEXIST" THEN Return(s1, Bool(FALSE))
            ELSE IF s1.rc # "OK" THEN err_set(s1)
            ELSE Return(s1, Bool(TRUE))
    IN  IF ~valid THEN err_invalid(s)
        ELSE IF key = 0 THEN type_error(s)
        ELSE result(mdb_put(s, txn, DbiOf(s, db, argdb), key, value,
                            PutFlags(ArgOr(dupdata, FALSE), ArgOr(overwrite, TRUE),
                                     ArgOr(append, FALSE))))

\* generic_delete: val_ptr is NULL when the value has size 0, whether none
\* was passed (the initialiser {0, 0}) or an empty one; a value is modelled
\* by its size-distinct code, 0 the zero-length value.
ValPtr(val) == IF ArgOr(val, 0) = 0 THEN Absent ELSE Given(ArgOr(val, 0))

generic_delete(s, valid, txn, db, key, val, argdb) ==
    LET result(s1) ==
            IF ~Ok(s1) THEN s1
            ELSE IF s1.rc = "MDB_NOTFOUND" THEN Return(s1, Bool(FALSE))
            ELSE IF s1.rc # "OK" THEN err_set(s1)
            ELSE Return(s1, Bool(TRUE))
    IN  IF ~valid THEN err_invalid(s)
        ELSE IF key = 0 THEN type_error(s)
        ELSE result(mdb_del(s, txn, DbiOf(s, db, argdb), key, ValPtr(val)))

\* make_trans that initialises and links the object before the engine call
\* and leaves it there when mdb_txn_begin fails.
make_trans_keeps_failed(s, parent, write, buffers, fail) ==
    LET self == SetMin(FreeTrans(s))
        n == T(self)
        parent_txn == IF parent # 0 THEN s.h.trans_txn[parent] ELSE NoTxn
        rdonly == ~(write /\ ~s.h.readonly)
        init(s2) ==
            Return(Py_INCREF([s2 EXCEPT !.h.trans_env[self] = ENV,
                                        !.h.trans_txn[self] = self,
                                        !.h.buffers[self] = buffers,
                                        !.h.bufp[GetBuf(self)] = NULL], ENV), Obj(n))
        begun(s1) ==
            IF ~Ok(s1) THEN s1
            ELSE IF s1.rc # "OK"
                 THEN err_set(link_child(OBJECT_INIT(PyObject_New(s1, n), n), ENV, n))
            ELSE init(link_child(OBJECT_INIT(PyObject_New(s1, n), n), ENV, n))
    IN  IF ~s.h.valid[ENV] THEN err_invalid(s)
        ELSE IF parent # 0 /\ ~s.h.valid[T(parent)] THEN err_invalid(s)
        ELSE IF write /\ s.h.readonly THEN err_set(s)
        ELSE IF FreeTrans(s) = {} THEN OutOfIds(s)
        ELSE begun(mdb_txn_begin(s, s.h.env_env, parent_txn, rdonly, self, fail))

\* make_trans: the validity tests, the read-only test, mdb_txn_begin, and
\* only then OBJECT_INIT, LINK_CHILD(env, self), self->env = env.
make_trans(s, parent, write, buffers, fail) ==
    LET self == SetMin(FreeTrans(s))
        n == T(self)
        parent_txn == IF parent # 0 THEN s.h.trans_txn[parent] ELSE NoTxn
        rdonly == ~(write /\ ~s.h.readonly)
        init(s2) ==
            Return(Py_INCREF([s2 EXCEPT !.h.trans_env[self] = ENV,
                                        !.h.trans_txn[self] = self,
                                        !.h.buffers[self] = buffers,
                                        !.h.bufp[GetBuf(self)] = NULL], ENV), Obj(n))
        begun(s1) ==
            IF ~Ok(s1) THEN s1
            ELSE IF s1.rc # "OK" THEN err_set(s1)
            ELSE init(link_child(OBJECT_INIT(PyObject_New(s1, n), n), ENV, n))
    IN  IF ~s.h.valid[ENV] THEN err_invalid(s)
        ELSE IF parent # 0 /\ ~s.h.valid[T(parent)] THEN err_invalid(s)
        ELSE IF write /\ s.h.readonly THEN err_set(s)
        ELSE IF FreeTrans(s) = {} THEN OutOfIds(s)
        ELSE begun(mdb_txn_begin(s, s.h.env_env, parent_txn, rdonly, self, fail))

\* make_cursor on the main database (db = NULL, or the Environment's main_db).
make_cursor(s, trans, fail) ==
    LET self == SetMin(FreeCurs(s))
        n == C(self)
        init(s2) ==
            Return(Py_INCREF([s2 EXCEPT !.h.positioned[self] = FALSE,
                                        !.h.key[self] = 0, !.h.val[self] = 0,
                                        !.h.curs_curs[self] = self,
                                        !.h.bufp[KeyBuf(self)] = NULL,
                                        !.h.bufp[ValBuf(self)] = NULL,
                                        !.h.item_tup[self] = FALSE,
                                        !.h.curs_trans[self] = T(trans)], T(trans)),
                   Obj(n))
        opened(s1) ==
            IF ~Ok(s1) THEN s1
            ELSE IF s1.rc # "OK" THEN err_set(s1)
            ELSE init(link_child(OBJECT_INIT(PyObject_New(s1, n), n), T(trans), n))
    IN  IF ~s.h.valid[T(trans)] THEN err_invalid(s)
        ELSE IF FreeCurs(s) = {} THEN OutOfIds(s)
        ELSE opened(mdb_cursor_open(s, s.h.trans_txn[trans], self, fail))


\* ========================================================== Environment
env_begin(s, write, parent, buffers, fail) ==
    IF ~s.h.valid[ENV] THEN err_invalid(s)
    ELSE make_trans(s, parent, write, buffers, fail)

\* close() that clears its own flag before the cascade.
env_close_flag_first(s) ==
    LET close(b) == Return([mdb_env_close(b, b.h.env_env) EXCEPT !.h.env_env = NULL], None)
    IN  IF s.h.valid[ENV] THEN close(invalidate(ClearValid(s, ENV), ENV))
        ELSE Return(s, None)

\* close() that makes a closed Environment valid again.
env_close_revalidates(s) ==
    LET close(b) == Return([mdb_env_close(b, b.h.env_env) EXCEPT !.h.env_env = NULL], None)
        invalid(a) == close(ClearValid(a, ENV))
    IN  IF s.h.valid[ENV] THEN invalid(invalidate(s, ENV))
        ELSE Return([s EXCEPT !.h.valid[ENV] = TRUE], None)

\* close(): INVALIDATE, valid = 0, mdb_env_close, env = NULL.
env_close(s) ==
    LET close(b) == Return([mdb_env_close(b, b.h.env_env) EXCEPT !.h.env_env = NULL], None)
        invalid(a) == close(ClearValid(a, ENV))
    IN  IF s.h.valid[ENV] THEN invalid(invalidate(s, ENV))
        ELSE Return(s, None)

\* info(), stat(), path(): the validity test, then one engine query.
env_query(s, name) ==
    LET result(s1) ==
            IF s1.rc # "OK" THEN err_set(s1)
            ELSE Return(s1, Value("info", 0, 0, NULL, <<>>))
    IN  IF ~s.h.valid[ENV] THEN err_invalid(s)
        ELSE result(mdb_env_call(s, name, s.h.env_env))

env_info(s) == env_query(s, "mdb_env_info")
env_stat(s) == env_query(s, "mdb_env_stat")
env_path(s) == env_query(s, "mdb_env_get_path")

env_sync(s) ==
    LET result(s1) == IF s1.rc # "OK" THEN err_set(s1) ELSE Return(s1, None)
    IN  IF ~s.h.valid[ENV] THEN err_invalid(s)
        ELSE result(mdb_env_call(s, "mdb_env_sync", s.h.env_env))

\* db_from_name: the namespace is opened in txn and a Database object is
\* linked under the Environment without taking a reference to it.
db_from_name(s, txn, named, dupsort, fail) ==
    LET init(s2, d) ==
            Return([s2 EXCEPT !.h.db_env[d] = ENV,
                              !.h.dbi[d] = IF named THEN 1 ELSE 0], Obj(D(d)))
        new(s1, d) ==
            init(link_child(OBJECT_INIT(PyObject_New(s1, D(d)), D(d)), ENV, D(d)), d)
        opened(s1) ==
            IF ~Ok(s1) THEN s1
            ELSE IF s1.rc # "OK" THEN err_set(s1)
            ELSE IF FreeDbs(s1) = {} THEN OutOfIds(s1)
            ELSE new(s1, SetMin(FreeDbs(s1)))
    IN  opened(mdb_dbi_open(s, txn, named, dupsort, fail))

\* txn_db_from_name that keeps the new handle when the commit fails.
txn_db_from_name_keeps(s, named, dupsort, fail) ==
    LET rdonly == ~named \/ s.h.readonly
        committed(s3) ==
            IF ~Ok(s3) THEN s3
            ELSE IF s3.rc # "OK" THEN err_set(s3)
            ELSE s3
        made(s2) ==
            IF ~Ok(s2) THEN s2
            ELSE IF s2.res # "ok"
                 THEN Ret(mdb_txn_abort(s2, ImplicitTxn), s2.res, None)
            ELSE committed(mdb_txn_commit(s2, ImplicitTxn, fail = "commit"))
        begun(s1) ==
            IF ~Ok(s1) THEN s1
            ELSE IF s1.rc # "OK" THEN err_set(s1)
            ELSE made(db_from_name(s1, ImplicitTxn, named, dupsort, fail = "open"))
    IN  begun(mdb_txn_begin(s, s.h.env_env, NoTxn, rdonly, ImplicitTxn, fail = "begin"))

\* txn_db_from_name: the same inside a transaction of its own; fail names
\* the engine call that fails ("none", "begin", "open", "commit").
txn_db_from_name(s, named, dupsort, fail) ==
    LET rdonly == ~named \/ s.h.readonly
        committed(s3, dbo) ==
            IF ~Ok(s3) THEN s3
            ELSE IF s3.rc # "OK" THEN err_set(Py_DECREF(s3, dbo))
            ELSE s3
        made(s2) ==
            IF ~Ok(s2) THEN s2
            ELSE IF s2.res # "ok"
                 THEN Ret(mdb_txn_abort(s2, ImplicitTxn), s2.res, None)
            ELSE committed(mdb_txn_commit(s2, ImplicitTxn, fail = "commit"),
                           s2.ret.node)
        begun(s1) ==
            IF ~Ok(s1) THEN s1
            ELSE IF s1.rc # "OK" THEN err_set(s1)
            ELSE made(db_from_name(s1, ImplicitTxn, named, dupsort, fail = "open"))
    IN  begun(mdb_txn_begin(s, s.h.env_env, NoTxn, rdonly, ImplicitTxn, fail = "begin"))

\* open_db: txn = 0 when no Transaction is passed.  parse_args is called
\* with valid = 1.
env_open_db(s, named, txn, dupsort, fail) ==
    IF txn # 0 THEN db_from_name(s, s.h.trans_txn[txn], named, dupsort, fail = "open")
    ELSE txn_db_from_name(s, named, dupsort, fail)

\* The end of env_get / env_gets: the implicit transaction is aborted and
\* the result of the read handed back.
ImplicitAbort(s) == Ret(mdb_txn_abort(s, ImplicitTxn), s.res, s.ret)

env_get(s, key) ==
    LET begun(s1) ==
            IF ~Ok(s1) THEN s1
            ELSE IF s1.rc # "OK" THEN err_set(s1)
            ELSE ImplicitAbort(generic_get(s1, TRUE, ImplicitTxn, s1.h.main_db, FALSE, NULL,
                                           key, Absent))
    IN  IF ~s.h.valid[ENV] THEN err_invalid(s)
        ELSE begun(mdb_txn_begin(s, s.h.env_env, NoTxn, TRUE, ImplicitTxn, FALSE))

\* Ending that commits whatever happened inside the call.
ImplicitEndCommits(s, fail) ==
    LET committed(s1) ==
            IF Ok(s1) /\ s1.rc # "OK" THEN err_set(s1) ELSE Ret(s1, s.res, s.ret)
    IN  IF ~Ok(s) THEN s
        ELSE committed(mdb_txn_commit(s, ImplicitTxn, fail = "commit"))

\* The end of env_put / env_delete: commit when the operation returned a
\* value, abort when it raised.
ImplicitEnd(s, fail) ==
    LET committed(s1) == IF Ok(s1) /\ s1.rc # "OK" THEN err_set(s1) ELSE s1
    IN  IF ~Ok(s) THEN s
        ELSE IF s.res = "ok"
             THEN committed(mdb_txn_commit(s, ImplicitTxn, fail = "commit"))
        ELSE ImplicitAbort(s)

env_put(s, key, value, dupdata, overwrite, append, fail) ==
    LET begun(s1) ==
            IF ~Ok(s1) THEN s1
            ELSE IF s1.rc # "OK" THEN err_set(s1)
            ELSE ImplicitEnd(generic_put(s1, TRUE, ImplicitTxn, s1.h.main_db, key,
                                         value, dupdata, overwrite, append, Absent),
                             fail)
    IN  IF ~s.h.valid[ENV] THEN err_invalid(s)
        ELSE begun(mdb_txn_begin(s, s.h.env_env, NoTxn, FALSE, ImplicitTxn,
                                 fail = "begin"))

env_delete(s, key, val, fail) ==
    LET begun(s1) ==
            IF ~Ok(s1) THEN s1
            ELSE IF s1.rc # "OK" THEN err_set(s1)
            ELSE ImplicitEnd(generic_delete(s1, TRUE, ImplicitTxn, s1.h.main_db, key,
                                            val, Absent), fail)
    IN  IF ~s.h.valid[ENV] THEN err_invalid(s)
        ELSE begun(mdb_txn_begin(s, s.h.env_env, NoTxn, FALSE, ImplicitTxn,
                                 fail = "begin"))

\* The loops of gets / puts / deletes over the caller's iterable.  An
\* element <<0, 0>> (key 0) is one val_from_buffer rejects, or no 2-tuple.
RECURSIVE gets_loop(_, _, _)
gets_loop(s, keys, found) ==
    LET got(s1) ==
            IF s1.rc = "OK" THEN gets_loop(s1, Tail(keys), Append(found, s1.out))
            ELSE IF s1.rc # "MDB_NOTFOUND" THEN err_set(s1)
            ELSE gets_loop(s1, Tail(keys), found)
    IN  IF ~Ok(s) \/ keys = <<>> THEN Return(s, List(found))
        ELSE IF Head(keys) = 0 THEN type_error(s)
        ELSE got(mdb_get(s, ImplicitTxn, s.h.dbi[s.h.main_db[2]], Head(keys)))

RECURSIVE puts_loop(_, _, _, _)
puts_loop(s, items, flags, list) ==
    LET put(s1) ==
            IF s1.rc = "OK" THEN puts_loop(s1, Tail(items), flags, Append(list, TRUE))
            ELSE IF s1.rc = "MDB_KEYEXIST"
                 THEN puts_loop(s1, Tail(items), flags, Append(list, FALSE))
            ELSE err_set(s1)
    IN  IF ~Ok(s) \/ items = <<>> THEN Return(s, List(list))
        ELSE IF Head(items)[1] = 0 THEN type_error(s)
        ELSE put(mdb_put(s, ImplicitTxn, s.h.dbi[s.h.main_db[2]],
                         Head(items)[1], Head(items)[2], flags))

RECURSIVE deletes_loop(_, _, _)
deletes_loop(s, keys, list) ==
    LET deleted(s1) ==
            IF s1.rc = "OK" THEN deletes_loop(s1, Tail(keys), Append(list, TRUE))
            ELSE IF s1.rc = "MDB_NOTFOUND"
                 THEN deletes_loop(s1, Tail(keys), Append(list, FALSE))
            ELSE err_set(s1)
    IN  IF ~Ok(s) \/ keys = <<>> THEN Return(s, List(list))
        ELSE IF Head(keys) = 0 THEN type_error(s)
        ELSE deleted(mdb_del(s, ImplicitTxn, s.h.dbi[s.h.main_db[2]], Head(keys),
                             Absent))

env_gets(s, keys) ==
    LET begun(s1) ==
            IF ~Ok(s1) THEN s1
            ELSE IF s1.rc # "OK" THEN err_set(s1)
            ELSE ImplicitAbort(gets_loop(s1, keys, <<>>))
    IN  IF ~s.h.valid[ENV] THEN err_invalid(s)
        ELSE begun(mdb_txn_begin(s, s.h.env_env, NoTxn, TRUE, ImplicitTxn, FALSE))

env_puts(s, items, dupdata, overwrite, append, fail) ==
    LET begun(s1) ==
            IF ~Ok(s1) THEN s1
            ELSE IF s1.rc # "OK" THEN err_set(s1)
            ELSE ImplicitEnd(puts_loop(s1, items,
                                       PutFlags(ArgOr(dupdata, FALSE),
                                                ArgOr(overwrite, TRUE),
                                                ArgOr(append, FALSE)),
                                       <<>>), fail)
    IN  IF ~s.h.valid[ENV] THEN err_invalid(s)
        ELSE begun(mdb_txn_begin(s, s.h.env_env, NoTxn, FALSE, ImplicitTxn,
                                 fail = "begin"))

env_deletes(s, keys, fail) ==
    LET begun(s1) ==
            IF ~Ok(s1) THEN s1
            ELSE IF s1.rc # "OK" THEN err_set(s1)
            ELSE ImplicitEnd(deletes_loop(s1, keys, <<>>), fail)
    IN  IF ~s.h.valid[ENV] THEN err_invalid(s)
        ELSE begun(mdb_txn_begin(s, s.h.env_env, NoTxn, FALSE, ImplicitTxn,
                                 fail = "begin"))

\* Environment.cursor(): a read Transaction of its own, referenced only by
\* the Cursor that is returned.
env_cursor(s, fail) ==
    LET made(s2, trans) == Ret(Py_DECREF(s2, trans), s2.res, s2.ret)
        begun(s1) ==
            IF ~Ok(s1) \/ s1.res # "ok" THEN s1
            ELSE made(make_cursor(s1, s1.ret.node[2], fail = "open"), s1.ret.node)
    IN  IF ~s.h.valid[ENV] THEN err_invalid(s)
        ELSE begun(make_trans(s, 0, FALSE, FALSE, fail = "begin"))


\* ========================================================== Transaction
\* Faulty variant of trans_abort: the engine transaction is committed.
trans_abort_publishes(s, t) ==
    LET committed(b) ==
            Return(ClearValid([b EXCEPT !.h.trans_txn[t] = NoTxn], T(t)), None)
        invalidated(a) == committed(mdb_txn_commit(a, a.h.trans_txn[t], FALSE))
    IN  IF ~s.h.valid[T(t)] THEN err_invalid(s)
        ELSE invalidated(invalidate(s, T(t)))

\* abort(): INVALIDATE, mdb_txn_abort, txn = NULL, valid = 0.
trans_abort(s, t) ==
    LET aborted(b) ==
            Return(ClearValid([b EXCEPT !.h.trans_txn[t] = NoTxn], T(t)), None)
        invalidated(a) == aborted(mdb_txn_abort(a, a.h.trans_txn[t]))
    IN  IF ~s.h.valid[T(t)] THEN err_invalid(s)
        ELSE invalidated(invalidate(s, T(t)))

\* Faulty variant of trans_commit: the engine transaction is aborted.
trans_commit_discards(s, t, fail) ==
    LET aborted(b) ==
            Return(ClearValid([b EXCEPT !.h.trans_txn[t] = NoTxn], T(t)), None)
        invalidated(a) == aborted(mdb_txn_abort(a, a.h.trans_txn[t]))
    IN  IF ~s.h.valid[T(t)] THEN err_invalid(s)
        ELSE invalidated(invalidate(s, T(t)))

\* commit() that keeps the handle usable when the engine refuses.
trans_commit_keeps_failed(s, t, fail) ==
    LET committed(b) ==
            IF b.rc # "OK" THEN err_set(b)
            ELSE Return(ClearValid([b EXCEPT !.h.trans_txn[t] = NoTxn], T(t)), None)
        invalidated(a) == committed(mdb_txn_commit(a, a.h.trans_txn[t], fail))
    IN  IF ~s.h.valid[T(t)] THEN err_invalid(s)
        ELSE invalidated(invalidate(s, T(t)))

\* commit(): INVALIDATE, mdb_txn_commit, txn = NULL, valid = 0, then the
\* error of the engine, if any.
trans_commit(s, t, fail) ==
    LET result(c, rc) == IF rc # "OK" THEN err_set(c) ELSE Return(c, None)
        committed(b) ==
            result(ClearValid([b EXCEPT !.h.trans_txn[t] = NoTxn], T(t)), b.rc)
        invalidated(a) == committed(mdb_txn_commit(a, a.h.trans_txn[t], fail))
    IN  IF ~s.h.valid[T(t)] THEN err_invalid(s)
        ELSE invalidated(invalidate(s, T(t)))

trans_cursor(s, t, fail) ==
    IF ~s.h.valid[T(t)] THEN err_invalid(s)
    ELSE make_cursor(s, t, fail)

\* get / put / delete pass self->env->main_db as an argument of the generic
\* routine: the Environment link is followed before anything is tested.
trans_get(s, t, key, db) ==
    IF s.h.trans_env[t] = NULL THEN Fault(s, "null_env_deref")
    ELSE generic_get(s, s.h.valid[T(t)], s.h.trans_txn[t], s.h.main_db,
                     s.h.buffers[t], GetBuf(t), key, db)

trans_put(s, t, key, value, dupdata, overwrite, append, db) ==
    IF s.h.trans_env[t] = NULL THEN Fault(s, "null_env_deref")
    ELSE generic_put(s, s.h.valid[T(t)], s.h.trans_txn[t], s.h.main_db, key, value,
                     dupdata, overwrite, append, db)

trans_delete(s, t, key, val, db) ==
    IF s.h.trans_env[t] = NULL THEN Fault(s, "null_env_deref")
    ELSE generic_delete(s, s.h.valid[T(t)], s.h.trans_txn[t], s.h.main_db, key, val, db)

\* drop(db): db = NULL when the argument is missing.
trans_drop(s, t, db) ==
    LET result(s1) == IF s1.rc # "OK" THEN err_set(s1) ELSE Return(s1, None)
    IN  IF ~s.h.valid[T(t)] THEN err_invalid(s)
        ELSE IF db = NULL THEN type_error(s)
        ELSE result(mdb_drop(s, s.h.trans_txn[t], s.h.dbi[db[2]]))

trans_enter(s, t) ==
    IF ~s.h.valid[T(t)] THEN err_invalid(s) ELSE Return(s, Obj(T(t)))

\* __exit__: commit when the block raised nothing, abort otherwise.
trans_exit(s, t, raised, fail) ==
    IF ~s.h.valid[T(t)] THEN err_invalid(s)
    ELSE IF ~raised THEN trans_commit(s, t, fail)
    ELSE trans_abort(s, t)

\* =============================================================== Cursor
\* _cursor_get_c that keeps the cached key and value when the move fails.
cursor_get_c_keeps_key(s, c, op) ==
    LET failed(s2, rc) ==
            IF rc # "MDB_NOTFOUND" /\ ~(rc = "EINVAL" /\ op = "MDB_GET_CURRENT")
            THEN err_set(s2)
            ELSE s2
        got(s1) ==
            IF ~Ok(s1) THEN s1
            ELSE IF s1.rc = "OK"
                 THEN [s1 EXCEPT !.h.positioned[c] = TRUE,
                                 !.h.key[c] = s1.kv[1], !.h.val[c] = s1.kv[2]]
            ELSE failed([s1 EXCEPT !.h.positioned[c] = FALSE], s1.rc)
    IN  got(mdb_cursor_get(s, s.h.curs_curs[c], s.h.key[c], op))

\* _cursor_get_c: res "EngineError" stands for its return value -1.
cursor_get_c(s, c, op) ==
    LET failed(s2, rc) ==
            IF rc # "MDB_NOTFOUND" /\ ~(rc = "EINVAL" /\ op = "MDB_GET_CURRENT")
            THEN err_set(s2)
            ELSE s2
        got(s1) ==
            IF ~Ok(s1) THEN s1
            ELSE IF s1.rc = "OK"
                 THEN [s1 EXCEPT !.h.positioned[c] = TRUE,
                                 !.h.key[c] = s1.kv[1], !.h.val[c] = s1.kv[2]]
            ELSE failed([s1 EXCEPT !.h.positioned[c] = FALSE,
                                   !.h.key[c] = 0, !.h.val[c] = 0], s1.rc)
    IN  got(mdb_cursor_get(s, s.h.curs_curs[c], s.h.key[c], op))

\* _cursor_get
cursor_move(s, c, op) ==
    LET moved(s1) ==
            IF ~Ok(s1) \/ s1.res # "ok" THEN s1
            ELSE Return(s1, Bool(s1.h.positioned[c]))
    IN  moved(cursor_get_c(s, c, op))

cursor_first(s, c) == IF ~s.h.valid[C(c)] THEN err_invalid(s) ELSE cursor_move(s, c, "MDB_FIRST")
cursor_last(s, c) == IF ~s.h.valid[C(c)] THEN err_invalid(s) ELSE cursor_move(s, c, "MDB_LAST")
cursor_next(s, c) == IF ~s.h.valid[C(c)] THEN err_invalid(s) ELSE cursor_move(s, c, "MDB_NEXT")
cursor_prev(s, c) == IF ~s.h.valid[C(c)] THEN err_invalid(s) ELSE cursor_move(s, c, "MDB_PREV")

cursor_set_key(s, c, arg) ==
    IF ~s.h.valid[C(c)] THEN err_invalid(s)
    ELSE cursor_move([s EXCEPT !.h.key[c] = arg], c, "MDB_SET_KEY")

cursor_set_range(s, c, arg) ==
    IF ~s.h.valid[C(c)] THEN err_invalid(s)
    ELSE IF arg # 0 THEN cursor_move([s EXCEPT !.h.key[c] = arg], c, "MDB_SET_RANGE")
    ELSE cursor_move([s EXCEPT !.h.key[c] = arg], c, "MDB_FIRST")

\* &self->key_buf / &self->val_buf filled by buffer_from_val: the datum lies
\* in the memory of the engine transaction of the Cursor's Transaction.
KeyView(s, c) ==
    buffer_from_val(s, KeyBuf(c), s.h.trans_txn[s.h.curs_trans[c][2]], s.h.key[c])

ValView(s, c) ==
    buffer_from_val(s, ValBuf(c), s.h.trans_txn[s.h.curs_trans[c][2]], s.h.val[c])

cursor_key(s, c) ==
    IF ~s.h.valid[C(c)] THEN err_invalid(s)
    ELSE IF s.h.buffers[s.h.curs_trans[c][2]]
         THEN Return(KeyView(s, c), Buffer(KeyBuf(c)))
    ELSE Return(s, Key(s.h.key[c]))

cursor_value(s, c) ==
    IF ~s.h.valid[C(c)] THEN err_invalid(s)
    ELSE IF s.h.buffers[s.h.curs_trans[c][2]]
         THEN Return(ValView(s, c), Buffer(ValBuf(c)))
    ELSE Return(s, Val(s.h.val[c]))

cursor_item(s, c) ==
    IF ~s.h.valid[C(c)] THEN err_invalid(s)
    ELSE IF s.h.buffers[s.h.curs_trans[c][2]]
         THEN Return([ValView(KeyView(s, c), c) EXCEPT !.h.item_tup[c] = TRUE],
                     Pair(KeyBuf(c), ValBuf(c)))
    ELSE Return(s, Item(s.h.key[c], s.h.val[c]))

cursor_get(s, c, key) ==
    LET found(s1) ==
            IF ~Ok(s1) \/ s1.res # "ok" THEN s1
            ELSE IF ~s1.h.positioned[c] THEN Return(s1, Default)
            ELSE cursor_value(s1, c)
    IN  IF ~s.h.valid[C(c)] THEN err_invalid(s)
        ELSE IF key = 0 THEN type_error(s)
        ELSE found(cursor_get_c([s EXCEPT !.h.key[c] = key], c, "MDB_SET_KEY"))

cursor_count(s, c) ==
    LET result(s1) ==
            IF ~Ok(s1) THEN s1
            ELSE IF s1.rc # "OK" THEN err_set(s1)
            ELSE Return(s1, Val(s1.out))
    IN  IF ~s.h.valid[C(c)] THEN err_invalid(s)
        ELSE result(mdb_cursor_count(s, s.h.curs_curs[c]))

\* delete() that steps to the next entry itself after deleting.
cursor_delete_steps(s, c) ==
    LET deleted(s1) ==
            IF ~Ok(s1) THEN s1
            ELSE IF s1.rc # "OK" THEN err_set(s1)
            ELSE Return(cursor_get_c(s1, c, "MDB_NEXT"), Bool(TRUE))
    IN  IF ~s.h.valid[C(c)] THEN err_invalid(s)
        ELSE IF ~s.h.positioned[c] THEN Return(s, Bool(FALSE))
        ELSE deleted(mdb_cursor_del(s, s.h.curs_curs[c]))

cursor_delete(s, c) ==
    LET deleted(s1) ==
            IF ~Ok(s1) THEN s1
            ELSE IF s1.rc # "OK" THEN err_set(s1)
            ELSE Return(cursor_get_c(s1, c, "MDB_GET_CURRENT"), Bool(TRUE))
    IN  IF ~s.h.valid[C(c)] THEN err_invalid(s)
        ELSE IF ~s.h.positioned[c] THEN Return(s, Bool(FALSE))
        ELSE deleted(mdb_cursor_del(s, s.h.curs_curs[c]))

\* The flag word Cursor.put() builds from the same three arguments.
CursorPutFlags(dupdata, overwrite, append) ==
    [nodupdata |-> ~dupdata, nooverwrite |-> ~overwrite, append |-> ~append]

cursor_put(s, c, key, val, dupdata, overwrite, append) ==
    LET result(s1) ==
            IF ~Ok(s1) THEN s1
            ELSE IF s1.rc = "MDB_KEYEXIST" THEN Return(s1, Bool(FALSE))
            ELSE IF s1.rc # "OK" THEN err_set(s1)
            ELSE Return(s1, Bool(TRUE))
    IN  IF ~s.h.valid[C(c)] THEN err_invalid(s)
        ELSE result(mdb_cursor_put(s, s.h.curs_curs[c], key, val,
                                   CursorPutFlags(dupdata, overwrite, append)))

\* ============================================================= Iterator
\* The projection chosen from the keys / values arguments.
ValFunc(keys, values) ==
    IF ~values THEN "key" ELSE IF ~keys THEN "value" ELSE "item"

NewIter(s, c, op, val_func) ==
    LET i == SetMin(FreeIters(s))
    IN  IF FreeIters(s) = {} THEN OutOfIds(s)
        ELSE Return(Py_INCREF([PyObject_New(s, I(i))
                                 EXCEPT !.h.iter_curs[i] = C(c),
                                        !.h.iter_started[i] = FALSE,
                                        !.h.iter_op[i] = op,
                                        !.h.iter_val_func[i] = val_func], C(c)),
                    Obj(I(i)))

\* iter_from_args that positions the Cursor whether or not it already has
\* a position.
iter_from_args_repositions(s, c, keys, values, pos_op, op) ==
    LET positioned(s1) ==
            IF ~Ok(s1) \/ s1.res # "ok" THEN s1
            ELSE NewIter(s1, c, op, ValFunc(keys, values))
    IN  IF ~s.h.valid[C(c)] THEN err_invalid(s)
        ELSE positioned(cursor_get_c(s, c, pos_op))

\* iter_from_args: the Cursor is moved to pos_op only when it has no
\* position; the Iterator starts unstarted.
iter_from_args(s, c, keys, values, pos_op, op) ==
    LET positioned(s1) ==
            IF ~Ok(s1) \/ s1.res # "ok" THEN s1
            ELSE NewIter(s1, c, op, ValFunc(keys, values))
    IN  IF ~s.h.valid[C(c)] THEN err_invalid(s)
        ELSE positioned(IF ~s.h.positioned[c] THEN cursor_get_c(s, c, pos_op) ELSE s)

cursor_iternext(s, c, keys, values) ==
    iter_from_args(s, c, keys, values, "MDB_FIRST", "MDB_NEXT")

cursor_iterprev(s, c, keys, values) ==
    iter_from_args(s, c, keys, values, "MDB_LAST", "MDB_PREV")

\* _iter_from(key, reverse): key = 0 when none (or an empty one) is given.
cursor_iter_from(s, c, key, reverse) ==
    LET placed(s2) ==
            IF ~Ok(s2) \/ s2.res # "ok" THEN s2
            ELSE NewIter(s2, c, IF reverse THEN "MDB_PREV" ELSE "MDB_NEXT", "item")
        ranged(s1) ==
            IF ~Ok(s1) \/ s1.res # "ok" THEN s1
            ELSE placed(IF reverse /\ ~s1.h.positioned[c]
                        THEN cursor_get_c(s1, c, "MDB_LAST") ELSE s1)
    IN  IF ~s.h.valid[C(c)] THEN err_invalid(s)
        ELSE ranged(IF key = 0 /\ ~reverse THEN cursor_get_c(s, c, "MDB_FIRST")
                    ELSE cursor_get_c([s EXCEPT !.h.key[c] = key], c, "MDB_SET_RANGE"))

\* iter_next: res "StopIteration" stands for the NULL return that ends
\* the sequence.
stop_iteration(s) == Ret(s, "StopIteration", None)

\* Faulty variant of iter_next: the first step moves the Cursor too.
iter_next_moves_first(s, i) ==
    LET c == s.h.iter_curs[i][2]
        started(s2) == [s2 EXCEPT !.h.iter_started[i] = TRUE]
        stepped(s1) ==
            IF ~Ok(s1) \/ s1.res # "ok" THEN s1
            ELSE IF ~s1.h.positioned[c] THEN stop_iteration(s1)
            ELSE started(CASE s1.h.iter_val_func[i] = "key" -> cursor_key(s1, c)
                           [] s1.h.iter_val_func[i] = "value" -> cursor_value(s1, c)
                           [] OTHER -> cursor_item(s1, c))
    IN  IF ~s.h.valid[C(c)] THEN err_invalid(s)
        ELSE IF ~s.h.positioned[c] THEN stop_iteration(s)
        ELSE stepped(cursor_get_c(s, c, s.h.iter_op[i]))

iter_next(s, i) ==
    LET c == s.h.iter_curs[i][2]
        started(s2) == [s2 EXCEPT !.h.iter_started[i] = TRUE]
        stepped(s1) ==
            IF ~Ok(s1) \/ s1.res # "ok" THEN s1
            ELSE IF ~s1.h.positioned[c] THEN stop_iteration(s1)
            ELSE started(CASE s1.h.iter_val_func[i] = "key" -> cursor_key(s1, c)
                           [] s1.h.iter_val_func[i] = "value" -> cursor_value(s1, c)
                           [] OTHER -> cursor_item(s1, c))
    IN  IF ~s.h.valid[C(c)] THEN err_invalid(s)
        ELSE IF ~s.h.positioned[c] THEN stop_iteration(s)
        ELSE stepped(IF s.h.iter_started[i] THEN cursor_get_c(s, c, s.h.iter_op[i])
                     ELSE s)


\* =========================================================== the program
\* The calling program: it invokes any public operation on any handle it
\* holds, and drops handles.  Every operation runs to completion on the
\* working record and its outcome is committed here.
MaxBatch == 2

KeySeqs(K) == UNION {[1..n -> K] : n \in 1..MaxBatch}
ItemSeqs(K, V) == UNION {[1..n -> K \X V] : n \in 1..MaxBatch}

S0(uaf) ==
    [h |-> heap, e |-> engine, log |-> <<>>, ev |-> <<>>, fault |-> "none", rc |-> "OK",
     out |-> 0, kv |-> <<0, 0>>, flags |-> NoFlags, uaf |-> uaf,
     res |-> "ok", ret |-> None]

\* The arguments of a call, as lastOp records them.
NoArgs ==
    [key |-> 0, val |-> 0, txn |-> 0, flag |-> FALSE,
     dupdata |-> Absent, overwrite |-> Absent, append |-> Absent,
     data |-> Absent, db |-> Absent, batch |-> <<>>, fail |-> "none"]

\* The dupdata / overwrite / append arguments a put may be called with.
PutArgs(Dup, Over, App) == [dupdata : Dup, overwrite : Over, append : App]
Optional == {Absent, Given(TRUE), Given(FALSE)}
\* overwrite passed explicitly, dupdata and append left out.
OverwriteArgs == PutArgs({Absent}, {Given(TRUE), Given(FALSE)}, {Absent})
NoPutArgs == PutArgs({Absent}, {Absent}, {Absent})
AnyPutArgs == PutArgs(Optional, Optional, Optional)

\* The value argument of a delete: none, or one of V.
NoneOr(V) == {Absent} \cup {Given(v) : v \in V}

\* The Transactions / Cursors made so far.
MadeTrans == Cardinality({t \in TransIds : heap.obj[T(t)] # "none"})
MadeCurs == Cardinality({c \in CursIds : heap.obj[C(c)] # "none"})

HeldTrans == {t \in TransIds : refs[T(t)]}
HeldCurs == {c \in CursIds : refs[C(c)]}
HeldIters == {i \in IterIds : refs[I(i)]}
HeldDbs == {d \in DbIds : refs[D(d)]}

\* ---- history (observers only: nothing below feeds back into the program)
EndOps == {"trans_commit", "trans_abort", "trans_exit"}
IsCommit(op, in) == op = "trans_commit" \/ (op = "trans_exit" /\ ~in.flag)

Idle == [ph |-> "idle", t |-> 0, k |-> 0, v |-> 0, pre |-> 0, nested |-> FALSE, new |-> {}]
Off == [Idle EXCEPT !.ph = "off"]

\* Some committed or uncommitted content visible before the call changed.
DataChanged(s) ==
    \/ s.e.store # engine.store
    \/ \E x \in EngTxnIds : /\ engine.txn[x].st = "active"
                            /\ s.e.txn[x].st = "active"
                            /\ s.e.txn[x].view # engine.txn[x].view

\* The round trip of one written pair: "put" while the pair is pending in
\* Transaction t (a nested commit hands it to the parent), then "committed"
\* or "aborted"; new collects the top-level Transactions begun afterwards.
Track(op, node, in, s) ==
    LET r == hist.rt
        t == node[2]
    IN  IF r.ph = "off" THEN r
        ELSE IF op = "trans_put" /\ s.res = "ok" /\ s.ret = Bool(TRUE)
             THEN [ph |-> "put", t |-> t, k |-> in.key, v |-> in.val,
                   pre |-> engine.store[in.key], nested |-> FALSE, new |-> {}]
        ELSE IF r.ph = "put"
             THEN IF op \in EndOps /\ node = T(r.t) /\ s.res = "ok"
                  THEN IF IsCommit(op, in)
                       THEN IF hist.parent[t] # 0
                            THEN [r EXCEPT !.t = hist.parent[t], !.nested = TRUE]
                            ELSE [r EXCEPT !.ph = "committed", !.t = 0, !.nested = FALSE]
                       ELSE IF hist.parent[t] # 0 THEN Idle
                            ELSE [r EXCEPT !.ph = "aborted", !.t = 0]
                  ELSE IF DataChanged(s) \/ op \in EndOps \cup {"env_close"} THEN Idle
                  ELSE r
        ELSE IF r.ph \in {"committed", "aborted"}
             THEN IF DataChanged(s) THEN Idle
                  ELSE IF op = "env_begin" /\ s.res = "ok" /\ in.txn = 0
                       THEN [r EXCEPT !.new = @ \cup {s.ret.node[2]}]
                  ELSE r
        ELSE r

\* A nested Transaction was begun: until it ends the engine refuses the
\* parent and its Cursors (MDB_BAD_TXN).
Nests(op, in, s) == op = "env_begin" /\ s.res = "ok" /\ in.txn # 0

\* The run of one Iterator i: the Cursor c it was made on, its direction,
\* whether c was Unpositioned when it was made (fresh), the keys stored at
\* that time (all), the keys yielded so far (seq).  The run is followed
\* until something else moves the Cursor or changes the data ("mixed").
\* stop: the Iterators one of whose steps has ended the sequence.
NoRun ==
    [ph |-> "idle", i |-> 0, c |-> 0, fwd |-> TRUE, fresh |-> FALSE, all |-> {},
     seq |-> <<>>, stop |-> {}]
NoRuns == [NoRun EXCEPT !.ph = "off"]
Mixed == [NoRun EXCEPT !.ph = "mixed"]

\* What the Transaction of Cursor c sees in the main database.
CursorView(s, c) == s.e.txn[s.h.trans_txn[s.h.curs_trans[c][2]]].view

Stopped(op, node, s) ==
    IF hist.it.ph = "off" THEN {}
    ELSE IF op = "iter_next" /\ s.res = "StopIteration"
         THEN hist.it.stop \cup {node[2]}
    ELSE hist.it.stop

TrackRun(op, node, in, s) ==
    LET r == hist.it IN
    IF r.ph = "off" THEN r
    ELSE IF op \in {"cursor_iternext", "cursor_iterprev"} /\ s.res = "ok"
         THEN [ph |-> "run", i |-> s.ret.node[2], c |-> node[2],
               fwd |-> op = "cursor_iternext",
               fresh |-> ~heap.positioned[node[2]],
               all |-> Present(CursorView(s, node[2])), seq |-> <<>>,
               stop |-> r.stop]
    ELSE IF r.ph # "run" THEN r
    ELSE IF op = "iter_next" /\ node = I(r.i)
         THEN IF s.res = "ok"
              THEN [r EXCEPT !.seq = Append(@, IF s.ret.kind = "val"
                                               THEN s.h.key[r.c] ELSE s.ret.key)]
              ELSE IF s.res = "StopIteration" THEN [r EXCEPT !.ph = "done"]
              ELSE Mixed
    ELSE IF DataChanged(s) \/ node = C(r.c) \/ op \in EndOps \cup {"env_close"}
            \/ Nests(op, in, s)
            \/ (op = "iter_next" /\ heap.iter_curs[node[2]] = C(r.c))
         THEN Mixed
    ELSE r

TrackIter(op, node, in, s) ==
    [TrackRun(op, node, in, s) EXCEPT !.stop = Stopped(op, node, s)]

\* The last delete() through a Cursor: the Cursor c and the key that
\* followed the deleted one in the view of its Transaction at that time
\* (succ, 0 when none did).  "deleted" lasts while nothing else touches the
\* Cursor or the data; the next step forward through it makes it "stepped".
NoDel == [ph |-> "idle", c |-> 0, succ |-> 0]
NoDels == [NoDel EXCEPT !.ph = "off"]

Successor(view, k) ==
    IF {x \in Present(view) : x > k} = {} THEN 0
    ELSE SetMin({x \in Present(view) : x > k})

StepsForward(op, node, c) ==
    \/ op = "cursor_next" /\ node = C(c)
    \/ /\ op = "iter_next"
       /\ heap.iter_curs[node[2]] = C(c)
       /\ heap.iter_op[node[2]] = "MDB_NEXT"

TrackDel(op, node, in, s) ==
    LET r == hist.cd IN
    IF r.ph = "off" THEN r
    ELSE IF op = "cursor_delete" /\ s.res = "ok" /\ s.ret = Bool(TRUE)
         THEN [ph |-> "deleted", c |-> node[2],
               succ |-> Successor(engine.txn[heap.trans_txn[heap.curs_trans[node[2]][2]]].view,
                                  heap.key[node[2]])]
    ELSE IF r.ph = "deleted" /\ StepsForward(op, node, r.c)
         THEN [r EXCEPT !.ph = "stepped"]
    ELSE IF r.ph = "deleted" /\ ~DataChanged(s) /\ node # C(r.c)
            /\ op \notin EndOps \cup {"env_close", "iter_next"}
            /\ ~Nests(op, in, s)
         THEN r
    ELSE NoDel

History(op, node, in, s) ==
    [ended |-> [t \in TransIds |->
                  IF hist.ended[t] # "no" THEN hist.ended[t]
                  ELSE IF op \in EndOps /\ node = T(t) /\ s.res # "InvalidHandle"
                       THEN IF IsCommit(op, in) THEN "commit" ELSE "abort"
                  ELSE IF op = "env_close" /\ heap.valid[ENV] /\ heap.obj[T(t)] = "live"
                       THEN "close"
                  ELSE "no"],
     parent |-> IF op = "env_begin" /\ s.res = "ok"
                THEN [hist.parent EXCEPT ![s.ret.node[2]] = in.txn]
                ELSE hist.parent,
     owner |-> IF op \in {"trans_cursor", "env_cursor"} /\ s.res = "ok"
               THEN [hist.owner EXCEPT ![s.ret.node[2]] =
                                         s.h.curs_trans[s.ret.node[2]][2]]
               ELSE hist.owner,
     closed |-> hist.closed \/ op = "env_close",
     rt |-> Track(op, node, in, s),
     it |-> TrackIter(op, node, in, s),
     cd |-> TrackDel(op, node, in, s)]

\* A handle returned to the caller is held by the caller ("del" drops it).
Refs(op, node, s) ==
    IF op = "del" THEN [refs EXCEPT ![node] = FALSE]
    ELSE IF s.res = "ok" /\ s.ret.kind = "obj" /\ op # "trans_enter"
         THEN [refs EXCEPT ![s.ret.node] = TRUE]
    ELSE refs

\* Between two calls the program holds no pending result.
Idling ==
    [op |-> "idle", node |-> NULL, in |-> NoArgs, res |-> "ok", ret |-> None,
     flags |-> NoFlags, ev |-> <<>>]

\* The outcome of one call.  Undefined behaviour ends the process: the
\* state is left as it was when it struck and nothing runs afterwards.
Finish(op, node, in, s) ==
    /\ fault = "none"
    /\ lastOp = Idling
    /\ s.res # "bound"
    /\ heap' = s.h
    /\ engine' = s.e
    /\ log' = s.log
    /\ fault' = s.fault
    /\ lastOp' = [op |-> op, node |-> node, in |-> in,
                  res |-> IF Ok(s) THEN s.res ELSE "crash",
                  ret |-> IF Ok(s) THEN s.ret ELSE None,
                  flags |-> s.flags, ev |-> s.ev]
    /\ refs' = IF Ok(s) THEN Refs(op, node, s) ELSE refs
    /\ hist' = IF Ok(s) THEN History(op, node, in, s) ELSE hist
    /\ UNCHANGED host


\* ------------------------------------------------------------ Environment
EnvBegin(F, N) ==
    \E write \in BOOLEAN, parent \in {0} \cup HeldTrans, fail \in F :
        /\ refs[ENV]
        /\ MadeTrans < N
        /\ Finish("env_begin", ENV,
                  [NoArgs EXCEPT !.txn = parent, !.flag = write,
                                 !.fail = IF fail THEN "begin" ELSE "none"],
                  env_begin(S0(FALSE), write, parent, FALSE, fail))

\* begin(buffers=True): a top-level Transaction in buffering mode.
EnvBeginBuffers(N) ==
    \E write \in BOOLEAN :
        /\ refs[ENV]
        /\ MadeTrans < N
        /\ Finish("env_begin", ENV, [NoArgs EXCEPT !.flag = write],
                  env_begin(S0(FALSE), write, 0, TRUE, FALSE))

EnvClose ==
    \E uaf \in BOOLEAN :
        /\ refs[ENV]
        /\ Finish("env_close", ENV, NoArgs, env_close(S0(uaf)))

EnvOpenDb(Named, Dupsort, F) ==
    \E named \in Named, txn \in {0} \cup HeldTrans, dupsort \in Dupsort, fail \in F :
        /\ refs[ENV]
        /\ Finish("env_open_db", ENV,
                  [NoArgs EXCEPT !.txn = txn, !.flag = named, !.fail = fail],
                  env_open_db(S0(FALSE), named, txn, dupsort, fail))

EnvInfo == refs[ENV] /\ Finish("env_info", ENV, NoArgs, env_info(S0(FALSE)))
EnvStat == refs[ENV] /\ Finish("env_stat", ENV, NoArgs, env_stat(S0(FALSE)))
EnvPath == refs[ENV] /\ Finish("env_path", ENV, NoArgs, env_path(S0(FALSE)))
EnvSync == refs[ENV] /\ Finish("env_sync", ENV, NoArgs, env_sync(S0(FALSE)))

EnvGet(K) ==
    \E key \in K :
        /\ refs[ENV]
        /\ Finish("env_get", ENV, [NoArgs EXCEPT !.key = key], env_get(S0(FALSE), key))

EnvGets(K) ==
    \E keys \in KeySeqs(K) :
        /\ refs[ENV]
        /\ Finish("env_gets", ENV, [NoArgs EXCEPT !.key = keys[1]],
                  env_gets(S0(FALSE), keys))

EnvPut(K, V, A, F) ==
    \E key \in K, value \in V, a \in A, fail \in F :
        /\ refs[ENV]
        /\ Finish("env_put", ENV,
                  [NoArgs EXCEPT !.key = key, !.val = value, !.dupdata = a.dupdata,
                                 !.overwrite = a.overwrite, !.append = a.append,
                                 !.batch = <<key>>, !.fail = fail],
                  env_put(S0(FALSE), key, value, a.dupdata, a.overwrite, a.append, fail))

EnvPuts(K, V, A, F) ==
    \E items \in ItemSeqs(K, V), a \in A, fail \in F :
        /\ refs[ENV]
        /\ Finish("env_puts", ENV,
                  [NoArgs EXCEPT !.key = items[1][1], !.dupdata = a.dupdata,
                                 !.overwrite = a.overwrite, !.append = a.append,
                                 !.batch = [j \in DOMAIN items |-> items[j][1]],
                                 !.fail = fail],
                  env_puts(S0(FALSE), items, a.dupdata, a.overwrite, a.append, fail))

EnvDelete(K, F) ==
    \E key \in K, fail \in F :
        /\ refs[ENV]
        /\ Finish("env_delete", ENV,
                  [NoArgs EXCEPT !.key = key, !.batch = <<key>>, !.fail = fail],
                  env_delete(S0(FALSE), key, Absent, fail))

EnvDeletes(K, F) ==
    \E keys \in KeySeqs(K), fail \in F :
        /\ refs[ENV]
        /\ Finish("env_deletes", ENV,
                  [NoArgs EXCEPT !.key = keys[1], !.batch = keys, !.fail = fail],
                  env_deletes(S0(FALSE), keys, fail))

EnvCursor(F, N) ==
    \E fail \in F :
        /\ refs[ENV]
        /\ MadeTrans < N
        /\ Finish("env_cursor", ENV, NoArgs, env_cursor(S0(FALSE), fail))

\* ------------------------------------------------------------ Transaction
TransCommit(F) ==
    \E t \in HeldTrans, fail \in F :
        Finish("trans_commit", T(t), [NoArgs EXCEPT !.flag = fail],
               trans_commit(S0(FALSE), t, fail))

TransAbort ==
    \E t \in HeldTrans :
        Finish("trans_abort", T(t), NoArgs, trans_abort(S0(FALSE), t))

TransCursor(F, N) ==
    \E t \in HeldTrans, fail \in F :
        /\ MadeCurs < N
        /\ Finish("trans_cursor", T(t), NoArgs, trans_cursor(S0(FALSE), t, fail))

\* The db argument of a call: none, or (Named) a Database the program holds.
DbArgs(Named) == {Absent} \cup (IF Named THEN {Given(D(d)) : d \in HeldDbs} ELSE {})

TransGet(K, Named) ==
    \E t \in HeldTrans, key \in K, db \in DbArgs(Named) :
        Finish("trans_get", T(t), [NoArgs EXCEPT !.key = key, !.db = db],
               trans_get(S0(FALSE), t, key, db))

TransPut(K, V, A, Named) ==
    \E t \in HeldTrans, key \in K, value \in V, a \in A, db \in DbArgs(Named) :
        Finish("trans_put", T(t),
               [NoArgs EXCEPT !.key = key, !.val = value, !.dupdata = a.dupdata,
                              !.overwrite = a.overwrite, !.append = a.append,
                              !.db = db],
               trans_put(S0(FALSE), t, key, value, a.dupdata, a.overwrite, a.append,
                         db))

TransDelete(K, V, Named) ==
    \E t \in HeldTrans, key \in K, val \in NoneOr(V), db \in DbArgs(Named) :
        Finish("trans_delete", T(t),
               [NoArgs EXCEPT !.key = key, !.val = ArgOr(val, 0), !.data = val,
                              !.db = db],
               trans_delete(S0(FALSE), t, key, val, db))

TransDrop ==
    \E t \in HeldTrans, db \in {NULL} \cup {D(d) : d \in HeldDbs} :
        Finish("trans_drop", T(t), NoArgs, trans_drop(S0(FALSE), t, db))

TransEnter ==
    \E t \in HeldTrans :
        Finish("trans_enter", T(t), NoArgs, trans_enter(S0(FALSE), t))

TransExit ==
    \E t \in HeldTrans, raised \in BOOLEAN :
        Finish("trans_exit", T(t), [NoArgs EXCEPT !.flag = raised],
               trans_exit(S0(FALSE), t, raised, FALSE))


\* ----------------------------------------------------------------- Cursor
CursorFirst ==
    \E c \in HeldCurs : Finish("cursor_first", C(c), NoArgs, cursor_first(S0(FALSE), c))

CursorLast ==
    \E c \in HeldCurs : Finish("cursor_last", C(c), NoArgs, cursor_last(S0(FALSE), c))

CursorNext ==
    \E c \in HeldCurs : Finish("cursor_next", C(c), NoArgs, cursor_next(S0(FALSE), c))

CursorPrev ==
    \E c \in HeldCurs : Finish("cursor_prev", C(c), NoArgs, cursor_prev(S0(FALSE), c))

CursorSetKey(K) ==
    \E c \in HeldCurs, key \in K :
        Finish("cursor_set_key", C(c), [NoArgs EXCEPT !.key = key],
               cursor_set_key(S0(FALSE), c, key))

CursorSetRange(K) ==
    \E c \in HeldCurs, key \in {0} \cup K :
        Finish("cursor_set_range", C(c), [NoArgs EXCEPT !.key = key],
               cursor_set_range(S0(FALSE), c, key))

CursorGet(K) ==
    \E c \in HeldCurs, key \in K :
        Finish("cursor_get", C(c), [NoArgs EXCEPT !.key = key],
               cursor_get(S0(FALSE), c, key))

CursorPut(K, V) ==
    \E c \in HeldCurs, key \in K, val \in V, append \in BOOLEAN :
        Finish("cursor_put", C(c),
               [NoArgs EXCEPT !.key = key, !.val = val, !.append = Given(append)],
               cursor_put(S0(FALSE), c, key, val, FALSE, TRUE, append))

\* put() with any of dupdata / overwrite / append passed or left out: what
\* is left out keeps the initialiser {{0, 0}, {0, 0}, 0, 1, 0}.
CursorPutWith(K, V, A) ==
    \E c \in HeldCurs, key \in K, val \in V, a \in A :
        Finish("cursor_put", C(c),
               [NoArgs EXCEPT !.key = key, !.val = val, !.dupdata = a.dupdata,
                              !.overwrite = a.overwrite, !.append = a.append],
               cursor_put(S0(FALSE), c, key, val, ArgOr(a.dupdata, FALSE),
                          ArgOr(a.overwrite, TRUE), ArgOr(a.append, FALSE)))

CursorDelete ==
    \E c \in HeldCurs : Finish("cursor_delete", C(c), NoArgs, cursor_delete(S0(FALSE), c))

CursorCount ==
    \E c \in HeldCurs : Finish("cursor_count", C(c), NoArgs, cursor_count(S0(FALSE), c))

CursorKey ==
    \E c \in HeldCurs : Finish("cursor_key", C(c), NoArgs, cursor_key(S0(FALSE), c))

CursorValue ==
    \E c \in HeldCurs : Finish("cursor_value", C(c), NoArgs, cursor_value(S0(FALSE), c))

CursorItem ==
    \E c \in HeldCurs : Finish("cursor_item", C(c), NoArgs, cursor_item(S0(FALSE), c))

\* iter(cursor) is iternext() without arguments.
CursorIterNext ==
    \E c \in HeldCurs, keys \in BOOLEAN, values \in BOOLEAN :
        Finish("cursor_iternext", C(c), NoArgs, cursor_iternext(S0(FALSE), c, keys, values))

CursorIterPrev ==
    \E c \in HeldCurs, keys \in BOOLEAN, values \in BOOLEAN :
        Finish("cursor_iterprev", C(c), NoArgs, cursor_iterprev(S0(FALSE), c, keys, values))

CursorIterFrom(K) ==
    \E c \in HeldCurs, key \in {0} \cup K, reverse \in BOOLEAN :
        Finish("cursor_iter_from", C(c), [NoArgs EXCEPT !.key = key, !.flag = reverse],
               cursor_iter_from(S0(FALSE), c, key, reverse))

\* --------------------------------------------------------------- Iterator
IterNext ==
    \E i \in HeldIters : Finish("iter_next", I(i), NoArgs, iter_next(S0(FALSE), i))

\* ------------------------------------------------------- dropping handles
\* The program lets go of a handle; the object is destroyed when that was
\* the last reference to it.
Drop ==
    \E n \in Nodes, uaf \in BOOLEAN :
        /\ refs[n]
        /\ Finish("del", n, NoArgs, Ret(Py_DECREF(S0(uaf), n), "ok", None))

\* ============================================================ host threads
\* Host threads calling into the module.  A handler runs under the host
\* lock except between DROP_GIL and LOCK_GIL, where (with the switch drop_gil
\* on) the lock is released around one engine call and any other thread may
\* run.  Each thread is a stack of frames: the handlers it is inside of and
\* where in each (pc); "unlocked" and "held" are the positions right before
\* an engine call, reached through DROP_GIL or without it.
MaxThreads == 2
Threads == 1..MaxThreads
NoThread == 0

Frame(fn, self, key) ==
    [fn |-> fn, self |-> self, pc |-> "start", next |-> NULL, txn |-> NoTxn, key |-> key]

IdleThread ==
    [st |-> "idle", k |-> <<>>, saved |-> FALSE, rc |-> "OK", out |-> 0,
     res |-> "ok", ret |-> None, drops |-> 0, locks |-> 0]

NoCall == [name |-> "none", p |-> NoThread, held |-> TRUE]

\* gil: the thread holding the host lock; drop_gil: the module's switch;
\* call: the engine call made by the last step and whether the caller held
\* the lock; unheld: a link or valid flag has been written by a thread that
\* did not hold the lock.
InitHost ==
    [gil |-> NoThread, drop_gil |-> FALSE, thr |-> [p \in Threads |-> IdleThread],
     call |-> NoCall, unheld |-> FALSE]

\* save_thread that releases the lock whatever the switch says.
save_thread_always(g, p) ==
    [g EXCEPT !.gil = NoThread, !.saved = TRUE, !.drops = @ + 1]

\* save_thread: PyEval_SaveThread() when the switch is on (saved: the
\* thread state returned is not NULL).
save_thread(g, p) ==
    IF g.drop_gil THEN [g EXCEPT !.gil = NoThread, !.saved = TRUE, !.drops = @ + 1]
    ELSE [g EXCEPT !.saved = FALSE]

\* restore_thread that never takes the lock back.
restore_thread_skips(g, p) == g

\* restore_thread: PyEval_RestoreThread(state) when the switch is on.
restore_thread(g, p) ==
    IF g.drop_gil THEN [g EXCEPT !.gil = p, !.saved = FALSE, !.locks = @ + 1]
    ELSE g

\* The running thread: s the working record, k its frames (innermost
\* first), g the lock as the thread sees it, unheld whether it has written
\* a link or a valid flag without holding the lock.
Top(M) == M.k[1]
Pop(M, s) == [M EXCEPT !.s = s, !.k = Tail(@)]
Goto(M, s, pc) == [M EXCEPT !.s = s, !.k[1].pc = pc]
Enter(M, pc, f) == [M EXCEPT !.k = <<f>> \o [@ EXCEPT ![1].pc = pc]]

DROP_GIL(M) == [M EXCEPT !.g = save_thread(M.g, M.p), !.k[1].pc = "unlocked"]

\* PyEval_RestoreThread(NULL) is a fatal error of the host.
LOCK_GIL(M) ==
    IF M.g.drop_gil /\ ~M.g.saved
    THEN [M EXCEPT !.s = Fault(M.s, "restore_null_thread")]
    ELSE [M EXCEPT !.g = restore_thread(M.g, M.p), !.k[1].pc = "after"]

\* invalidate(): the loop over the children, next read before tp_clear.
invalidate_seg(M, f) ==
    IF f.pc = "start" THEN [M EXCEPT !.k[1].pc = "loop", !.k[1].next = M.s.h.chead[f.self]]
    ELSE IF f.next = NULL THEN Pop(M, M.s)
    ELSE IF M.s.h.obj[f.next] # "live" THEN Pop(M, Fault(M.s, "use_after_free"))
    ELSE [M EXCEPT !.k = <<Frame(CASE f.next[1] = "T" -> "trans_clear"
                                   [] f.next[1] = "C" -> "cursor_clear"
                                   [] OTHER -> "db_clear", f.next, 0)>>
                          \o [@ EXCEPT ![1].next = M.s.h.snext[f.next]]]

\* cursor_clear around its mdb_cursor_close.
cursor_clear_seg(M, f) ==
    LET c == f.self[2] IN
    CASE f.pc = "start" ->
            IF M.s.h.valid[f.self]
            THEN Goto(M, unlink_child(invalidate(M.s, f.self), M.s.h.curs_trans[c], f.self),
                      "drop")
            ELSE Pop(M, cursor_clear(M.s, c))
      [] f.pc = "drop" -> DROP_GIL(M)
      [] f.pc = "lock" -> LOCK_GIL(M)
      [] OTHER -> Pop(M, cursor_clear(ClearValid(M.s, f.self), c))

\* trans_clear around its mdb_txn_abort.
trans_clear_seg(M, f) ==
    LET t == f.self[2] IN
    CASE f.pc = "start" ->
            IF M.s.h.valid[f.self] THEN Enter(M, "cleared", Frame("invalidate", f.self, 0))
            ELSE Pop(M, trans_clear(M.s, t))
      [] f.pc = "cleared" ->
            IF M.s.h.trans_txn[t] # NoTxn THEN Goto(M, M.s, "drop")
            ELSE Pop(M, trans_clear(ClearValid(M.s, f.self), t))
      [] f.pc = "drop" -> DROP_GIL(M)
      [] f.pc = "lock" -> LOCK_GIL(M)
      [] OTHER ->
            Pop(M, trans_clear(ClearValid([M.s EXCEPT !.h.trans_txn[t] = NoTxn], f.self), t))

\* trans_commit / trans_abort around the engine call.
trans_end_seg(M, f) ==
    LET t == f.self[2]
        ended == ClearValid([M.s EXCEPT !.h.trans_txn[t] = NoTxn], f.self)
    IN  CASE f.pc = "start" ->
                IF ~M.s.h.valid[f.self] THEN Pop(M, err_invalid(M.s))
                ELSE Enter(M, "drop", Frame("invalidate", f.self, 0))
          [] f.pc = "drop" -> DROP_GIL(M)
          [] f.pc = "lock" -> LOCK_GIL(M)
          [] OTHER ->
                Pop(M, IF f.fn = "trans_commit" /\ M.s.rc # "OK" THEN err_set(ended)
                       ELSE Return(ended, None))

\* env_close: the cascade, valid = 0, then mdb_env_close.
env_close_seg(M, f) ==
    CASE f.pc = "start" ->
            IF M.s.h.valid[ENV] THEN Enter(M, "cleared", Frame("invalidate", ENV, 0))
            ELSE Pop(M, Return(M.s, None))
      [] f.pc = "cleared" -> Goto(M, ClearValid(M.s, ENV), "drop")
      [] f.pc = "drop" -> DROP_GIL(M)
      [] f.pc = "lock" -> LOCK_GIL(M)
      [] OTHER -> Pop(M, Return([M.s EXCEPT !.h.env_env = NULL], None))

\* trans_get -> generic_get: self->txn is passed by value before the lock is
\* released.
trans_get_seg(M, f) ==
    LET t == f.self[2] IN
    CASE f.pc = "start" ->
            IF M.s.h.trans_env[t] = NULL THEN Pop(M, Fault(M.s, "null_env_deref"))
            ELSE IF ~M.s.h.valid[f.self] THEN Pop(M, err_invalid(M.s))
            ELSE [M EXCEPT !.k[1].pc = "drop", !.k[1].txn = M.s.h.trans_txn[t]]
      [] f.pc = "drop" -> DROP_GIL(M)
      [] f.pc = "lock" -> LOCK_GIL(M)
      [] OTHER ->
            Pop(M, IF M.s.rc = "MDB_NOTFOUND" THEN Return(M.s, Default)
                   ELSE IF M.s.rc # "OK" THEN err_set(M.s)
                   ELSE Return(M.s, Val(M.s.out)))

cursor_count_seg(M, f) ==
    CASE f.pc = "start" ->
            IF ~M.s.h.valid[f.self] THEN Pop(M, err_invalid(M.s))
            ELSE Goto(M, M.s, "drop")
      [] f.pc = "drop" -> DROP_GIL(M)
      [] f.pc = "lock" -> LOCK_GIL(M)
      [] OTHER ->
            Pop(M, IF M.s.rc # "OK" THEN err_set(M.s) ELSE Return(M.s, Val(M.s.out)))

\* env_path: mdb_env_get_path is called as it stands, without DROP_GIL.
env_path_seg(M, f) ==
    CASE f.pc = "start" ->
            IF ~M.s.h.valid[ENV] THEN Pop(M, err_invalid(M.s))
            ELSE Goto(M, M.s, "held")
      [] OTHER ->
            Pop(M, IF M.s.rc # "OK" THEN err_set(M.s)
                   ELSE Return(M.s, Value("info", 0, 0, NULL, <<>>)))

\* make_cursor around its mdb_cursor_open: the object is allocated before
\* the call, and initialised and linked after it.
make_cursor_seg(M, f) ==
    LET c == f.next[2] IN
    CASE f.pc = "start" ->
            IF ~M.s.h.valid[f.self] THEN Pop(M, err_invalid(M.s))
            ELSE IF FreeCurs(M.s) = {} THEN Pop(M, OutOfIds(M.s))
            ELSE [M EXCEPT !.s = PyObject_New(M.s, C(SetMin(FreeCurs(M.s)))),
                           !.k[1].pc = "drop",
                           !.k[1].next = C(SetMin(FreeCurs(M.s)))]
      [] f.pc = "drop" -> DROP_GIL(M)
      [] f.pc = "lock" -> LOCK_GIL(M)
      [] OTHER ->
            IF M.s.rc # "OK" THEN Pop(M, err_set(PyObject_Del(M.s, f.next)))
            ELSE Pop(M, Return(Py_INCREF(
                    [link_child(OBJECT_INIT(M.s, f.next), f.self, f.next)
                        EXCEPT !.h.positioned[c] = FALSE,
                               !.h.key[c] = 0, !.h.val[c] = 0,
                               !.h.curs_curs[c] = c,
                               !.h.bufp[KeyBuf(c)] = NULL,
                               !.h.bufp[ValBuf(c)] = NULL,
                               !.h.item_tup[c] = FALSE,
                               !.h.curs_trans[c] = f.self], f.self), Obj(f.next)))

\* make_trans (a read-only top-level Transaction) around its mdb_txn_begin.
make_trans_seg(M, f) ==
    LET t == f.next[2] IN
    CASE f.pc = "start" ->
            IF ~M.s.h.valid[ENV] THEN Pop(M, err_invalid(M.s))
            ELSE IF FreeTrans(M.s) = {} THEN Pop(M, OutOfIds(M.s))
            ELSE [M EXCEPT !.s = PyObject_New(M.s, T(SetMin(FreeTrans(M.s)))),
                           !.k[1].pc = "drop",
                           !.k[1].next = T(SetMin(FreeTrans(M.s)))]
      [] f.pc = "drop" -> DROP_GIL(M)
      [] f.pc = "lock" -> LOCK_GIL(M)
      [] OTHER ->
            IF M.s.rc # "OK" THEN Pop(M, err_set(PyObject_Del(M.s, f.next)))
            ELSE Pop(M, Return(Py_INCREF(
                    [link_child(OBJECT_INIT(M.s, f.next), ENV, f.next)
                        EXCEPT !.h.trans_env[t] = ENV,
                               !.h.trans_txn[t] = t,
                               !.h.buffers[t] = FALSE,
                               !.h.bufp[GetBuf(t)] = NULL], ENV), Obj(f.next)))

\* One step of the innermost frame.
Micro(M) ==
    LET f == Top(M) IN
    CASE f.fn = "invalidate" -> invalidate_seg(M, f)
      [] f.fn = "cursor_clear" -> cursor_clear_seg(M, f)
      [] f.fn = "trans_clear" -> trans_clear_seg(M, f)
      [] f.fn = "db_clear" -> Pop(M, db_clear(M.s, f.self[2]))
      [] f.fn \in {"trans_commit", "trans_abort"} -> trans_end_seg(M, f)
      [] f.fn = "env_close" -> env_close_seg(M, f)
      [] f.fn = "trans_get" -> trans_get_seg(M, f)
      [] f.fn = "cursor_count" -> cursor_count_seg(M, f)
      [] f.fn = "make_cursor" -> make_cursor_seg(M, f)
      [] f.fn = "make_trans" -> make_trans_seg(M, f)
      [] OTHER -> env_path_seg(M, f)

\* The links of the tree and the valid flags differ between h1 and h2.
TreeWritten(h1, h2) ==
    \/ h1.valid # h2.valid
    \/ h1.sprev # h2.sprev \/ h1.snext # h2.snext \/ h1.chead # h2.chead

Noted(M, M1) ==
    [M1 EXCEPT !.unheld = @ \/ (TreeWritten(M.s.h, M1.s.h) /\ M.g.gil # M.p)]

\* The thread runs until it returns, dies, or stands before an engine call.
RECURSIVE Run(_)
Run(M) ==
    IF M.k = <<>> \/ ~Ok(M.s) \/ Top(M).pc \in {"unlocked", "held"} THEN M
    ELSE Run(Noted(M, Micro(M)))

\* The engine call the innermost frame stands before; self->txn, self->curs
\* and self->env are read when the call is made.
EngineCall(s, f) ==
    CASE f.fn = "trans_commit" -> mdb_txn_commit(s, s.h.trans_txn[f.self[2]], FALSE)
      [] f.fn \in {"trans_abort", "trans_clear"} ->
            mdb_txn_abort(s, s.h.trans_txn[f.self[2]])
      [] f.fn = "cursor_clear" -> mdb_cursor_close(s, s.h.curs_curs[f.self[2]])
      [] f.fn = "env_close" -> mdb_env_close(s, s.h.env_env)
      [] f.fn = "trans_get" -> mdb_get(s, f.txn, DbiOf(s, s.h.main_db, Absent), f.key)
      [] f.fn = "cursor_count" -> mdb_cursor_count(s, s.h.curs_curs[f.self[2]])
      [] f.fn = "make_cursor" ->
            mdb_cursor_open(s, s.h.trans_txn[f.self[2]], f.next[2], FALSE)
      [] f.fn = "make_trans" ->
            mdb_txn_begin(s, s.h.env_env, NoTxn, TRUE, f.next[2], FALSE)
      [] OTHER -> mdb_env_call(s, "mdb_env_get_path", s.h.env_env)

\* The state of thread p as it runs on from the state of the program.
Machine(p, k, rc, out) ==
    [s |-> [S0(FALSE) EXCEPT !.rc = rc, !.out = out],
     k |-> k, p |-> p, unheld |-> FALSE,
     g |-> [gil |-> host.gil, drop_gil |-> host.drop_gil, saved |-> host.thr[p].saved,
            drops |-> host.thr[p].drops, locks |-> host.thr[p].locks]]

\* The outcome of a run of thread p becomes the state of the program.
Settle(p, M) ==
    /\ heap' = M.s.h
    /\ engine' = M.s.e
    /\ fault' = M.s.fault
    /\ host' = [host EXCEPT
                  !.gil = M.g.gil,
                  !.call = NoCall,
                  !.unheld = @ \/ M.unheld,
                  !.thr[p] = [st |-> IF M.k = <<>> THEN "returned" ELSE "call",
                              k |-> M.k, saved |-> M.g.saved,
                              rc |-> "OK", out |-> 0,
                              res |-> M.s.res, ret |-> M.s.ret,
                              drops |-> M.g.drops, locks |-> M.g.locks]]
    /\ UNCHANGED <<refs, log, lastOp, hist>>

AllIdle == host.gil = NoThread /\ \A p \in Threads : host.thr[p].st = "idle"

\* Thread p, scheduled by the host, calls a method: it holds the lock.
ThBegin(p, f) ==
    /\ fault = "none" /\ lastOp = Idling
    /\ host.thr[p].st = "idle"
    /\ host.gil = NoThread
    /\ Settle(p, Run([Machine(p, <<f>>, "OK", 0) EXCEPT !.g.gil = p, !.g.drops = 0,
                                                         !.g.locks = 0]))

ThTransCommit ==
    \E p \in Threads, t \in HeldTrans : ThBegin(p, Frame("trans_commit", T(t), 0))

ThTransAbort ==
    \E p \in Threads, t \in HeldTrans : ThBegin(p, Frame("trans_abort", T(t), 0))

ThTransGet(K) ==
    \E p \in Threads, t \in HeldTrans, key \in K : ThBegin(p, Frame("trans_get", T(t), key))

ThCursorCount ==
    \E p \in Threads, c \in HeldCurs : ThBegin(p, Frame("cursor_count", C(c), 0))

\* Transaction.cursor() and Environment.begin() called by a thread.
ThTransCursor(N) ==
    \E p \in Threads, t \in HeldTrans :
        /\ MadeCurs < N
        /\ ThBegin(p, Frame("make_cursor", T(t), 0))

ThEnvBegin(N) ==
    \E p \in Threads :
        /\ MadeTrans < N
        /\ ThBegin(p, Frame("make_trans", ENV, 0))

ThEnvClose == \E p \in Threads : ThBegin(p, Frame("env_close", ENV, 0))

ThEnvPath == \E p \in Threads : ThBegin(p, Frame("env_path", ENV, 0))

\* enable_drop_gil()
ThEnableDropGil ==
    \E p \in Threads :
        /\ fault = "none" /\ lastOp = Idling
        /\ host.thr[p].st = "idle"
        /\ host.gil = NoThread
        /\ ~host.drop_gil
        /\ host' = [host EXCEPT !.drop_gil = TRUE, !.call = NoCall]
        /\ UNCHANGED <<heap, engine, refs, log, fault, lastOp, hist>>

\* The engine call of a thread standing before one.
ThCall ==
    \E p \in Threads :
        /\ fault = "none"
        /\ host.thr[p].st = "call"
        /\ LET f == host.thr[p].k[1]
               s == EngineCall(S0(FALSE), f)
           IN  /\ heap' = s.h
               /\ engine' = s.e
               /\ fault' = s.fault
               /\ host' = [host EXCEPT
                             !.call = [name |-> f.fn, p |-> p, held |-> host.gil = p],
                             !.thr[p].st = "called",
                             !.thr[p].rc = s.rc,
                             !.thr[p].out = s.out,
                             !.thr[p].k[1].pc = IF f.pc = "unlocked" THEN "lock" ELSE "after"]
        /\ UNCHANGED <<refs, log, lastOp, hist>>

\* The call has returned: LOCK_GIL waits for the lock when it was released,
\* and the handler runs on.
ThResume ==
    \E p \in Threads :
        /\ fault = "none"
        /\ host.thr[p].st = "called"
        /\ (host.thr[p].k[1].pc = "lock" /\ host.drop_gil /\ host.thr[p].saved)
                => host.gil = NoThread
        /\ Settle(p, Run(Machine(p, host.thr[p].k, host.thr[p].rc, host.thr[p].out)))

\* The method has returned to the interpreter, which may switch threads.
ThReturn ==
    \E p \in Threads :
        /\ fault = "none"
        /\ host.thr[p].st = "returned"
        /\ host' = [host EXCEPT !.gil = IF @ = p THEN NoThread ELSE @,
                                !.call = NoCall,
                                !.thr[p] = IdleThread]
        /\ refs' = IF host.thr[p].res = "ok" /\ host.thr[p].ret.kind = "obj"
                   THEN [refs EXCEPT ![host.thr[p].ret.node] = TRUE]
                   ELSE refs
        /\ UNCHANGED <<heap, engine, log, fault, lastOp, hist>>

\* ------------------------------------------------------------------- Init
\* The state env_new leaves: an open, valid Environment held by the program,
\* with its main Database linked beneath it, and an empty store.
InitHeap ==
    [obj |-> [n \in Nodes |-> IF n \in {ENV, MainDb} THEN "live" ELSE "none"],
     refcnt |-> [n \in Nodes |-> IF n \in {ENV, MainDb} THEN 1 ELSE 0],
     valid |-> [n \in Nodes |-> n \in {ENV, MainDb}],
     sprev |-> [n \in Nodes |-> NULL],
     snext |-> [n \in Nodes |-> NULL],
     chead |-> [n \in Nodes |-> IF n = ENV THEN MainDb ELSE NULL],
     trans_env |-> [t \in TransIds |-> NULL],
     trans_txn |-> [t \in TransIds |-> NoTxn],
     curs_trans |-> [c \in CursIds |-> NULL],
     curs_curs |-> [c \in CursIds |-> 0],
     positioned |-> [c \in CursIds |-> FALSE],
     key |-> [c \in CursIds |-> 0],
     val |-> [c \in CursIds |-> 0],
     db_env |-> [d \in DbIds |-> IF d = 0 THEN ENV ELSE NULL],
     dbi |-> [d \in DbIds |-> 0],
     buffers |-> [t \in TransIds |-> FALSE],
     bufp |-> [b \in Bufs |-> NULL],
     item_tup |-> [c \in CursIds |-> FALSE],
     buf |-> [b \in Bufs |-> [b_ptr |-> NULL, b_size |-> 0]],
     iter_curs |-> [i \in IterIds |-> NULL],
     iter_started |-> [i \in IterIds |-> FALSE],
     iter_op |-> [i \in IterIds |-> "MDB_NEXT"],
     iter_val_func |-> [i \in IterIds |-> "item"],
     env_env |-> MdbEnv,
     main_db |-> MainDb,
     readonly |-> FALSE]

InitEngine ==
    [env |-> "open",
     txn |-> [t \in EngTxnIds |->
                [st |-> "none", write |-> FALSE, parent |-> NoTxn, view |-> EmptyView,
                 dups |-> NoDups]],
     cur |-> [c \in CursIds |-> [st |-> "none", txn |-> NoTxn, pos |-> 0, del |-> FALSE]],
     store |-> EmptyView,
     dstore |-> NoDups,
     dupsort |-> FALSE,
     created |-> FALSE,
     rel |-> [n \in Nodes |-> 0]]

InitHist(rt, it, cd) ==
    [ended |-> [t \in TransIds |-> "no"],
     parent |-> [t \in TransIds |-> 0],
     owner |-> [c \in CursIds |-> 0],
     closed |-> FALSE,
     rt |-> rt,
     it |-> it,
     cd |-> cd]

InitWith(rt, it, cd) ==
    /\ heap = InitHeap
    /\ engine = InitEngine
    /\ refs = [n \in Nodes |-> n = ENV]
    /\ log = <<>>
    /\ fault = "none"
    /\ lastOp = Idling
    /\ hist = InitHist(rt, it, cd)
    /\ host = InitHost

Init == InitWith(Off, NoRuns, NoDels)

\* The program takes the result of the call and goes on.
Resume ==
    /\ fault = "none"
    /\ lastOp # Idling
    /\ lastOp' = Idling
    /\ log' = <<>>
    /\ UNCHANGED <<heap, engine, refs, fault, hist, host>>

\* Inputs of the lifecycle specifications: the content written is
\* immaterial there, and so is which engine call fails.
OneKey == {1}
OneVal == {1}
NoFail == {FALSE}
OpenFails == {"none", "begin", "open", "commit"}

\* The Transaction lifecycle: begin (nested too), the operations of a
\* Transaction, commit / abort, close of the Environment, destruction.
Next ==
    \/ EnvBegin(NoFail, MaxTrans - 1) \/ EnvClose
    \/ TransCommit(BOOLEAN) \/ TransAbort \/ TransCursor(NoFail, MaxCurs - 1)
    \/ TransGet(OneKey, FALSE) \/ TransPut(OneKey, OneVal, OverwriteArgs, FALSE)
    \/ TransDelete(OneKey, OneVal, FALSE)
    \/ TransDrop \/ TransEnter \/ TransExit
    \/ Drop
    \/ Resume

Spec == Init /\ [][Next]_vars

\* Cursors and Iterators over the Transactions that own them.
NextCursor ==
    \/ EnvBegin(NoFail, MaxTrans - 2) \/ EnvCursor({"none"}, MaxTrans - 1) \/ EnvClose
    \/ TransCommit(NoFail) \/ TransAbort \/ TransCursor(NoFail, MaxCurs)
    \/ TransPut(OneKey, OneVal, OverwriteArgs, FALSE)
    \/ CursorFirst \/ CursorLast \/ CursorNext \/ CursorPrev
    \/ CursorSetKey(OneKey) \/ CursorSetRange(OneKey)
    \/ CursorGet(OneKey) \/ CursorPut(OneKey, OneVal)
    \/ CursorDelete \/ CursorCount
    \/ CursorKey \/ CursorValue \/ CursorItem
    \/ CursorIterNext \/ CursorIterPrev \/ CursorIterFrom(OneKey)
    \/ IterNext
    \/ Resume

SpecCursor == Init /\ [][NextCursor]_vars

\* The operations of the Environment, before and after close.
NextEnv ==
    \/ EnvBegin(NoFail, MaxTrans - 2) \/ EnvClose
    \/ EnvOpenDb(BOOLEAN, {FALSE}, OpenFails)
    \/ EnvInfo \/ EnvStat \/ EnvPath \/ EnvSync
    \/ EnvGet(OneKey) \/ EnvGets(OneKey)
    \/ EnvPut(OneKey, OneVal, OverwriteArgs, {"none", "commit"})
    \/ EnvPuts(OneKey, OneVal, NoPutArgs, {"none"})
    \/ EnvDelete(OneKey, {"none"}) \/ EnvDeletes(OneKey, {"none"})
    \/ EnvCursor({"none", "begin", "open"}, MaxTrans - 1)
    \/ TransCommit(NoFail) \/ TransAbort
    \/ Drop
    \/ Resume

SpecEnv == Init /\ [][NextEnv]_vars

\* Reads and writes through Transactions only, with the round trip of each
\* written pair followed.
InitKV == InitWith(Idle, NoRuns, NoDels)

NextKV ==
    \/ EnvBegin(NoFail, MaxTrans)
    \/ TransGet(Keys, FALSE) \/ TransPut(Keys, Vals, OverwriteArgs, FALSE)
    \/ TransDelete(Keys, Vals, FALSE)
    \/ TransCommit(NoFail) \/ TransAbort
    \/ Resume

SpecKV == InitKV /\ [][NextKV]_vars

\* Stores through a Transaction and through the Environment, with every
\* combination of the dupdata / overwrite / append arguments.
NextPut ==
    \/ EnvBegin(NoFail, MaxTrans - 2)
    \/ TransPut(Keys, OneVal, AnyPutArgs, FALSE)
    \/ EnvPut(Keys, OneVal, AnyPutArgs, {"none"})
    \/ EnvPuts(Keys, OneVal, AnyPutArgs, {"none"})
    \/ TransCommit(NoFail) \/ TransAbort
    \/ Resume

SpecPut == Init /\ [][NextPut]_vars

\* A sorted-duplicates Database: opened by name, written and read by
\* Transactions that pass it as db; a delete may name a value, the
\* zero-length one (0) included.
NextDup ==
    \/ EnvOpenDb({TRUE}, {TRUE}, {"none"})
    \/ EnvBegin(NoFail, MaxTrans - 2)
    \/ TransGet(OneKey, TRUE) \/ TransPut(Keys, Vals, NoPutArgs, TRUE)
    \/ TransDelete(Keys, {0} \cup Vals, TRUE)
    \/ TransCommit(NoFail) \/ TransAbort
    \/ Resume

SpecDup == Init /\ [][NextDup]_vars

\* Iteration: one Transaction stores keys, one Cursor over it is moved and
\* iterated forward and backward, with the run of the Iterator followed.
InitIter == InitWith(Off, NoRun, NoDel)

NextIter ==
    \/ EnvBegin(NoFail, MaxTrans - 2)
    \/ TransPut(Keys, OneVal, NoPutArgs, FALSE) \/ TransDelete(Keys, {}, FALSE)
    \/ TransCursor(NoFail, MaxCurs - 1)
    \/ CursorFirst \/ CursorLast \/ CursorNext \/ CursorPrev
    \/ CursorSetKey(Keys) \/ CursorDelete
    \/ CursorIterNext \/ CursorIterPrev
    \/ IterNext
    \/ Resume

SpecIter == InitIter /\ [][NextIter]_vars

\* Iteration from a key: one Transaction stores keys, Iterators are made by
\* _iter_from with and without a key, forward and reverse, and stepped.
NextIterFrom ==
    \/ EnvBegin(NoFail, MaxTrans - 2)
    \/ TransPut(Keys, OneVal, NoPutArgs, FALSE) \/ TransDelete(Keys, {}, FALSE)
    \/ TransCursor(NoFail, MaxCurs - 1)
    \/ CursorIterFrom(Keys)
    \/ IterNext
    \/ Resume

SpecIterFrom == Init /\ [][NextIterFrom]_vars

\* Buffering mode: Transactions begun with buffers=True, read through
\* get() and through Cursors, and ended in every way.
NextBuffers ==
    \/ EnvBeginBuffers(MaxTrans - 2)
    \/ TransPut(OneKey, OneVal, NoPutArgs, FALSE) \/ TransGet(OneKey, FALSE)
    \/ TransCursor(NoFail, MaxCurs - 1)
    \/ CursorFirst \/ CursorNext
    \/ CursorKey \/ CursorValue \/ CursorItem
    \/ TransCommit(NoFail) \/ TransAbort \/ EnvClose \/ Drop
    \/ Resume

SpecBuffers == Init /\ [][NextBuffers]_vars

\* One Cursor over one Transaction, worked through the Cursor's own
\* operations only: stores, moves, deletes and reads of the cached key.
NextCursorOps ==
    \/ EnvBegin(NoFail, MaxTrans - 2)
    \/ TransCursor(NoFail, MaxCurs - 1)
    \/ CursorPut(Keys, Vals)
    \/ CursorFirst \/ CursorLast \/ CursorNext \/ CursorPrev
    \/ CursorSetKey(Keys)
    \/ CursorDelete \/ CursorKey
    \/ Resume

SpecCursorOps == Init /\ [][NextCursorOps]_vars

\* Stores through a Transaction and through a Cursor with the same
\* arguments.
NextCursorPut ==
    \/ EnvBegin(NoFail, MaxTrans - 2)
    \/ TransPut(Keys, OneVal, AnyPutArgs, FALSE)
    \/ TransCursor(NoFail, MaxCurs - 1)
    \/ CursorPutWith(Keys, OneVal, AnyPutArgs)
    \/ TransGet(Keys, FALSE)
    \/ Resume

SpecCursorPut == Init /\ [][NextCursorPut]_vars

\* Every cursor move over a store of several keys.
NextMove ==
    \/ EnvBegin(NoFail, MaxTrans - 1)
    \/ TransPut(Keys, Vals, NoPutArgs, FALSE) \/ TransDelete(Keys, {}, FALSE)
    \/ TransCursor(NoFail, MaxCurs - 1)
    \/ CursorFirst \/ CursorLast \/ CursorNext \/ CursorPrev
    \/ CursorSetKey(Keys) \/ CursorSetRange(Keys)
    \/ CursorDelete
    \/ TransCommit(NoFail)
    \/ Resume

SpecMove == Init /\ [][NextMove]_vars

\* begin on an Environment opened read-only or read-write, with a valid or
\* an ended parent, with and without a failure of mdb_txn_begin.
InitBegin ==
    /\ heap \in {[InitHeap EXCEPT !.readonly = ro] : ro \in BOOLEAN}
    /\ engine = InitEngine
    /\ refs = [n \in Nodes |-> n = ENV]
    /\ log = <<>>
    /\ fault = "none"
    /\ lastOp = Idling
    /\ hist = InitHist(Off, NoRuns, NoDels)
    /\ host = InitHost

NextBegin ==
    \/ EnvBegin(BOOLEAN, MaxTrans)
    \/ TransCursor(NoFail, MaxCurs - 1)
    \/ TransCommit(NoFail) \/ TransAbort
    \/ EnvClose
    \/ Drop
    \/ Resume

SpecBegin == InitBegin /\ [][NextBegin]_vars

\* Calls that run inside a transaction of their own: the one-call
\* operations of the Environment with malformed elements (key 0), keys the
\* engine refuses (BadKey) and failures of the engine's begin and commit,
\* next to explicit Transactions.
AnyKey == {0} \cup Keys \cup {BadKey}
ImplicitFails == {"none", "begin", "commit"}

NextImplicit ==
    \/ EnvBegin(NoFail, MaxTrans - 1)
    \/ TransPut(OneKey, OneVal, NoPutArgs, FALSE)
    \/ TransCommit(NoFail) \/ TransAbort
    \/ EnvPut(AnyKey, OneVal, NoPutArgs, ImplicitFails)
    \/ EnvPuts(AnyKey, OneVal, NoPutArgs, ImplicitFails)
    \/ EnvDelete(AnyKey, ImplicitFails)
    \/ EnvDeletes(AnyKey, ImplicitFails)
    \/ EnvOpenDb(BOOLEAN, {FALSE}, OpenFails)
    \/ EnvClose
    \/ Resume

SpecImplicit == Init /\ [][NextImplicit]_vars

\* Writers and readers: explicit Transactions of both kinds next to the
\* calls that write inside a transaction of their own.
NextWriters ==
    \/ EnvBegin(NoFail, MaxTrans)
    \/ TransPut(OneKey, OneVal, NoPutArgs, FALSE)
    \/ TransCommit(NoFail) \/ TransAbort
    \/ EnvPut(OneKey, OneVal, NoPutArgs, {"none"})
    \/ EnvPuts(OneKey, OneVal, NoPutArgs, {"none"})
    \/ EnvDelete(OneKey, {"none"})
    \/ EnvDeletes(OneKey, {"none"})
    \/ EnvOpenDb(BOOLEAN, {FALSE}, {"none"})
    \/ Resume

SpecWriters == Init /\ [][NextWriters]_vars

\* The same program, which always goes on after a call has returned.
SpecWritersLive == Init /\ [][NextWriters]_vars /\ WF_vars(Resume)

\* Two host threads sharing one Environment, one Transaction and one Cursor
\* (made while no thread is inside the module), with the lock released
\* around engine calls once the switch is turned on.
\* The handles are made while no thread is inside the module.
MainBegin == AllIdle /\ EnvBegin(NoFail, MaxTrans - 2)
MainCursor == AllIdle /\ TransCursor(NoFail, MaxCurs - 1)
MainResume == AllIdle /\ Resume

NextThreads ==
    \/ MainBegin \/ MainCursor \/ MainResume
    \/ ThEnableDropGil
    \/ ThTransCommit \/ ThTransAbort \/ ThTransGet(OneKey) \/ ThCursorCount
    \/ ThTransCursor(MaxCurs - 1) \/ ThEnvBegin(MaxTrans - 2)
    \/ ThEnvClose \/ ThEnvPath
    \/ ThCall \/ ThResume \/ ThReturn

SpecThreads == Init /\ [][NextThreads]_vars


\* ============================================================ properties
CursorOps ==
    {"cursor_first", "cursor_last", "cursor_next", "cursor_prev",
     "cursor_set_key", "cursor_set_range", "cursor_get", "cursor_put",
     "cursor_delete", "cursor_count", "cursor_key", "cursor_value",
     "cursor_item", "cursor_iternext", "cursor_iterprev", "cursor_iter_from"}

TransOps ==
    {"trans_get", "trans_put", "trans_delete", "trans_cursor", "trans_drop",
     "trans_commit", "trans_abort", "trans_enter", "trans_exit"}

EnvOps ==
    {"env_begin", "env_open_db", "env_stat", "env_info", "env_path",
     "env_sync", "env_get", "env_gets", "env_put", "env_puts", "env_delete",
     "env_deletes", "env_cursor"}

\* The call just made was refused: InvalidHandle, and the engine not called.
Refused == lastOp.res = "InvalidHandle" /\ log = <<>>

\* The Transaction a Cursor / an Iterator was made on, from the history.
OwnerOf(c) == hist.owner[c]
CursorOf(i) == heap.iter_curs[i][2]

\* The engine calls of the log that were handed engine cursor c.
CursorCalls(c) ==
    {j \in 1..Len(log) : log[j][2] = c /\ log[j][1] \in
        {"mdb_cursor_get", "mdb_cursor_put", "mdb_cursor_del",
         "mdb_cursor_count", "mdb_cursor_close"}}

\* C1: once the Transaction of a Cursor has been committed, aborted or
\* invalidated by Environment.close(), every operation on the Cursor and
\* every step of an Iterator over it fails with InvalidHandle, and no later
\* call hands the engine cursor to the engine.
C1_CursorAfterTransEnd ==
    /\ (lastOp.op \in CursorOps /\ hist.ended[OwnerOf(lastOp.node[2])] # "no")
          => Refused
    /\ (lastOp.op = "iter_next" /\ hist.ended[OwnerOf(CursorOf(lastOp.node[2]))] # "no")
          => Refused
    /\ (lastOp.op \notin EndOps \cup {"env_close", "idle"})
          => \A c \in CursIds :
                (OwnerOf(c) # 0 /\ hist.ended[OwnerOf(c)] # "no") => CursorCalls(c) = {}

\* A step of an Iterator is refused after the commit of the Transaction.
C1_Witness ==
    /\ lastOp.op = "iter_next"
    /\ lastOp.res = "InvalidHandle"
    /\ hist.ended[OwnerOf(CursorOf(lastOp.node[2]))] = "commit"

\* C2: after the commit or abort of a parent Transaction, every operation
\* on a Transaction begun with it as parent fails with InvalidHandle and
\* makes no engine call.
C2_ChildAfterParentEnd ==
    (/\ lastOp.op \in TransOps
     /\ hist.parent[lastOp.node[2]] # 0
     /\ hist.ended[hist.parent[lastOp.node[2]]] \in {"commit", "abort"})
        => Refused

\* C3: after Environment.close() has cascaded into an active Transaction,
\* get, put and delete on it fail with InvalidHandle, nothing owned by the
\* Transaction having been read (no crash, no engine call).
C3_TransAfterClose ==
    (/\ lastOp.op \in {"trans_get", "trans_put", "trans_delete"}
     /\ hist.ended[lastOp.node[2]] = "close")
        => Refused

\* C4: after Environment.close() has returned, every other operation of the
\* Environment fails with InvalidHandle and makes no engine call.
C4_EnvAfterClose ==
    (lastOp.op \in EnvOps /\ hist.closed) => Refused

\* C5: after commit() or abort() has been called once on a Transaction,
\* every later operation on it, and begin with it as parent, fails with
\* InvalidHandle and makes no engine call.
C5_Step ==
    /\ (/\ lastOp'.op \in TransOps
        /\ hist.ended[lastOp'.node[2]] \in {"commit", "abort"})
          => (lastOp'.res = "InvalidHandle" /\ log' = <<>>)
    /\ (/\ lastOp'.op = "env_begin"
        /\ lastOp'.in.txn # 0
        /\ hist.ended[lastOp'.in.txn] \in {"commit", "abort"})
          => (lastOp'.res = "InvalidHandle" /\ log' = <<>>)

C5_TransAfterEnd == [][lastOp = Idling => C5_Step]_vars

\* C6: the engine resource behind an Environment, a Transaction or a Cursor
\* is never released twice, and has been released exactly once when the
\* handle is destroyed.
C6_ReleasedOnce ==
    \A n \in Nodes :
        /\ engine.rel[n] <= 1
        /\ (heap.obj[n] = "freed" /\ n[1] \in {"E", "T", "C"}) => engine.rel[n] = 1

\* C7: close() returns normally; the first close has invalidated every
\* Transaction, Cursor and Database by the time it makes its last engine
\* call, the one release of the engine instance; a later close makes no
\* engine call.
C7_Step ==
    lastOp'.op = "env_close" =>
        /\ lastOp'.res = "ok"
        /\ engine'.rel[ENV] = 1
        /\ \A n \in Nodes : n[1] \in {"T", "C", "D"} => ~heap'.valid[n]
        /\ IF heap.valid[ENV]
           THEN /\ log' # <<>>
                /\ log'[Len(log')] = <<"mdb_env_close", 0>>
                /\ \A j \in 1..(Len(log') - 1) : log'[j][1] # "mdb_env_close"
           ELSE log' = <<>>

C7_Close == [][lastOp = Idling => C7_Step]_vars

\* The engine transaction of Transaction t; t is active when the handle is
\* valid and its engine transaction is running with no nested transaction
\* pending beneath it; what t sees for key k.
TxnOf(t) == heap.trans_txn[t]
Active(t) ==
    /\ heap.valid[T(t)]
    /\ TxnOf(t) # NoTxn
    /\ engine.txn[TxnOf(t)].st = "active"
    /\ \A x \in EngTxnIds :
          ~(engine.txn[x].st = "active" /\ engine.txn[x].parent = TxnOf(t))
Seen(t, k) == engine.txn[TxnOf(t)].view[k]

\* The call just made was a get of the tracked key by a Transaction begun
\* after the tracked pair was committed or aborted up to the top level.
GetByNew ==
    /\ lastOp.op = "trans_get"
    /\ lastOp.node[2] \in hist.rt.new
    /\ Active(lastOp.node[2])
    /\ lastOp.in.key = hist.rt.k

\* What a get returns for stored value v (0: the key is absent).
Got(v) == IF v = 0 THEN Default ELSE Val(v)

\* C8: a pair put in a write Transaction and committed is what a get of the
\* key in a new Transaction returns; after abort instead, the get returns
\* the value the key had before the write, or the default when it had none.
C8_RoundTrip ==
    (GetByNew /\ hist.rt.ph \in {"committed", "aborted"}) =>
        /\ lastOp.res = "ok"
        /\ lastOp.ret = IF hist.rt.ph = "committed" THEN Val(hist.rt.v)
                        ELSE Got(hist.rt.pre)

\* After an abort the get returns the earlier value, not the one written.
C8_Witness ==
    /\ GetByNew
    /\ hist.rt.ph = "aborted"
    /\ hist.rt.pre # 0
    /\ hist.rt.pre # hist.rt.v
    /\ lastOp.ret = Val(hist.rt.pre)

\* C9: a pair put in a nested Transaction and committed there is returned
\* by get in the parent while the parent is active; once the parent is
\* aborted a new Transaction reads what was stored before (nothing, when
\* the key was absent).
C9_Nested ==
    /\ (/\ hist.rt.ph = "put" /\ hist.rt.nested
        /\ lastOp.op = "trans_get"
        /\ lastOp.node = T(hist.rt.t)
        /\ Active(hist.rt.t)
        /\ lastOp.in.key = hist.rt.k)
          => (lastOp.res = "ok" /\ lastOp.ret = Val(hist.rt.v))
    /\ (GetByNew /\ hist.rt.ph = "aborted" /\ hist.rt.nested)
          => (lastOp.res = "ok" /\ lastOp.ret = Got(hist.rt.pre))

\* The new Transaction does not see the key after the parent's abort.
C9_Witness ==
    /\ GetByNew
    /\ hist.rt.ph = "aborted"
    /\ hist.rt.nested
    /\ hist.rt.pre = 0
    /\ lastOp.ret = Default

\* The call about to be made has a not-found or key-exists outcome.
Missing(op, t, in) ==
    /\ op \in {"trans_get", "trans_put", "trans_delete"}
    /\ Active(t)
    /\ \/ op = "trans_get" /\ Seen(t, in.key) = 0
       \/ /\ op = "trans_put" /\ engine.txn[TxnOf(t)].write
          /\ in.overwrite = Given(FALSE) /\ Seen(t, in.key) # 0
       \/ /\ op = "trans_delete" /\ engine.txn[TxnOf(t)].write
          /\ \/ Seen(t, in.key) = 0
             \/ in.val # 0 /\ Seen(t, in.key) # in.val

\* C10: get of a missing key returns the default, put with overwrite=False
\* on an existing key returns False, delete of an absent key / value returns
\* False; the Transaction stays active and the stored data is unchanged.
C10_Step ==
    Missing(lastOp'.op, lastOp'.node[2], lastOp'.in) =>
        /\ lastOp'.res = "ok"
        /\ lastOp'.ret = IF lastOp'.op = "trans_get" THEN Default ELSE Bool(FALSE)
        /\ heap'.valid = heap.valid
        /\ engine'.txn = engine.txn
        /\ engine'.store = engine.store

C10_NotFoundIsValue == [][lastOp = Idling => C10_Step]_vars

\* A put with overwrite=False has just returned False.
C10_Witness ==
    /\ lastOp.op = "trans_put"
    /\ lastOp.in.overwrite = Given(FALSE)
    /\ lastOp.res = "ok"
    /\ lastOp.ret = Bool(FALSE)

\* The engine calls of the log that store a pair.
PutCalls == {j \in 1..Len(log) : log[j][1] = "mdb_put"}

\* C11: a put of a Transaction or of the Environment (put, puts) hands the
\* engine MDB_NOOVERWRITE iff overwrite=False was passed, MDB_NODUPDATA iff
\* dupdata=False was passed and MDB_APPEND iff append=True was passed; a call
\* without flag arguments hands it none of the three.
C11_PutFlags ==
    (lastOp.op \in {"trans_put", "env_put", "env_puts"} /\ PutCalls # {}) =>
        lastOp.flags = [nooverwrite |-> lastOp.in.overwrite = Given(FALSE),
                        nodupdata |-> lastOp.in.dupdata = Given(FALSE),
                        append |-> lastOp.in.append = Given(TRUE)]

\* The db argument names the sorted-duplicates Database.
OnDupsort(db) == db # Absent /\ heap.dbi[db[1][2]] # 0 /\ engine.dupsort

\* C12: in a sorted-duplicates Database, delete(key) removes every value of
\* the key; delete(key, value) removes exactly that duplicate and leaves the
\* others, for every value passed, the zero-length one included; either
\* returns False and changes nothing when the key / the pair is not there.
C12_Step ==
    LET t == lastOp'.node[2]
        in == lastOp'.in
        before == engine.txn[TxnOf(t)].dups
        after == engine'.txn[TxnOf(t)].dups
    IN  (/\ lastOp'.op = "trans_delete"
         /\ OnDupsort(in.db)
         /\ Active(t)
         /\ engine.txn[TxnOf(t)].write)
            => /\ lastOp'.res = "ok"
               /\ \A k \in Keys \ {in.key} : after[k] = before[k]
               /\ IF in.data = Absent
                  THEN /\ after[in.key] = {}
                       /\ lastOp'.ret = Bool(before[in.key] # {})
                  ELSE /\ after[in.key] = before[in.key] \ {in.data[1]}
                       /\ lastOp'.ret = Bool(in.data[1] \in before[in.key])

C12_DupDelete == [][lastOp = Idling => C12_Step]_vars

\* The keys of S in ascending / descending order.
RECURSIVE Ascending(_)
Ascending(S) == IF S = {} THEN <<>> ELSE <<SetMin(S)>> \o Ascending(S \ {SetMin(S)})
RECURSIVE Descending(_)
Descending(S) == IF S = {} THEN <<>> ELSE <<SetMax(S)>> \o Descending(S \ {SetMax(S)})
IsPrefix(p, q) == Len(p) <= Len(q) /\ \A j \in 1..Len(p) : p[j] = q[j]

\* The order in which the followed Iterator has to yield the stored keys.
InOrder == IF hist.it.fwd THEN Ascending(hist.it.all) ELSE Descending(hist.it.all)

\* C13: an Iterator made on an Unpositioned Cursor and stepped with nothing
\* else moving the Cursor or changing the data yields the stored keys in
\* ascending order (forward) or descending order (backward), each exactly
\* once: what it has yielded is always a prefix of that order, so it ends
\* within as many steps as there are keys, and it ends only when every key
\* has been yielded.  The step that ends any Iterator leaves the Cursor
\* Unpositioned.
C13_IterOrder ==
    /\ (hist.it.ph \in {"run", "done"} /\ hist.it.fresh)
          => /\ IsPrefix(hist.it.seq, InOrder)
             /\ hist.it.ph = "done" => hist.it.seq = InOrder
    /\ (lastOp.op = "iter_next" /\ lastOp.res = "StopIteration")
          => ~heap.positioned[CursorOf(lastOp.node[2])]

\* A backward Iterator has yielded both stored keys, the larger first, and
\* its last step ended the sequence.
C13_Witness ==
    /\ lastOp.op = "iter_next"
    /\ lastOp.res = "StopIteration"
    /\ hist.it.ph = "done" /\ hist.it.fresh
    /\ ~hist.it.fwd
    /\ hist.it.seq = <<2, 1>>

CommitCalls(t) == {j \in 1..Len(log) : log[j] = <<"mdb_txn_commit", t>>}

\* C15: when the engine refuses the commit of a Transaction (in.flag), the
\* call raises EngineError after exactly one mdb_txn_commit, the
\* Transaction is invalid and holds no engine transaction afterwards, all
\* its Cursors are invalid, and no later operation hands the engine
\* transaction of a committed Transaction to mdb_txn_commit again.
C15_CommitFails ==
    /\ (/\ lastOp.op = "trans_commit"
        /\ lastOp.in.flag
        /\ lastOp.res \notin {"InvalidHandle", "crash"})
          => /\ lastOp.res = "EngineError"
             /\ ~heap.valid[lastOp.node]
             /\ heap.trans_txn[lastOp.node[2]] = NoTxn
             /\ Cardinality(CommitCalls(lastOp.node[2])) = 1
             /\ \A c \in CursIds :
                    OwnerOf(c) = lastOp.node[2] => ~heap.valid[C(c)]
    /\ \A t \in TransIds :
          (/\ hist.ended[t] = "commit"
           /\ ~(lastOp.op \in EndOps /\ lastOp.node = T(t)))
             => CommitCalls(t) = {}

\* A refused commit of a Transaction that has a Cursor.
C15_Witness ==
    /\ lastOp.op = "trans_commit"
    /\ lastOp.in.flag
    /\ lastOp.res = "EngineError"
    /\ \E c \in CursIds : OwnerOf(c) = lastOp.node[2] /\ ~heap.valid[C(c)]

\* The calls the last operation made on the engine transaction that
\* Environment-level calls begin for themselves.
ImplicitCalls(name) == {j \in 1..Len(log) : log[j] = <<name, ImplicitTxn>>}
ImplicitOps == {"env_put", "env_puts", "env_delete", "env_deletes"}

\* An element of the batch that fails: a malformed one, or a key the
\* engine refuses with an error other than key-exists / not-found.
ElementFails(in) == \E j \in DOMAIN in.batch : in.batch[j] \notin Keys

\* C16: a put / puts / delete / deletes on the Environment that returns
\* leaves no transaction of its own active.  When an element fails, the
\* call raises, its transaction is aborted (never committed) and the
\* committed content is what it was before the call; when nothing fails,
\* its transaction is committed exactly once and never aborted.
C16_Step ==
    (lastOp'.op \in ImplicitOps /\ lastOp'.res # "crash") =>
        /\ engine'.txn[ImplicitTxn].st # "active"
        /\ lastOp'.res = "InvalidHandle" => log' = <<>>
        /\ (lastOp'.res # "InvalidHandle" /\ lastOp'.in.fail # "begin") =>
              /\ Cardinality(ImplicitCalls("mdb_txn_begin")') = 1
              /\ IF ElementFails(lastOp'.in)
                 THEN /\ lastOp'.res \in {"TypeError", "EngineError"}
                      /\ Cardinality(ImplicitCalls("mdb_txn_abort")') = 1
                      /\ ImplicitCalls("mdb_txn_commit")' = {}
                      /\ engine'.store = engine.store
                 ELSE /\ Cardinality(ImplicitCalls("mdb_txn_commit")') = 1
                      /\ ImplicitCalls("mdb_txn_abort")' = {}
                      /\ lastOp'.in.fail = "none" => lastOp'.res = "ok"
                      /\ lastOp'.in.fail = "commit" =>
                            /\ lastOp'.res = "EngineError"
                            /\ engine'.store = engine.store

C16_ImplicitTxn == [][lastOp = Idling => C16_Step]_vars

\* puts() whose second element fails after the first was stored.
C16_Witness ==
    /\ lastOp.op = "env_puts"
    /\ lastOp.in.batch = <<1, BadKey>>
    /\ lastOp.res = "EngineError"
    /\ engine.store[1] = 0
    /\ Cardinality(ImplicitCalls("mdb_put")) = 2

\* The Database handles in the child list of the Environment.
LinkedDbs(h) == {d \in DbIds : D(d) \in ChainFrom(h, h.chead[ENV])}

\* C17: open_db without a Transaction on an open Environment begins one
\* transaction of its own; it commits it once (and never aborts it) when
\* mdb_dbi_open succeeded and aborts it once (and never commits it) when
\* mdb_dbi_open failed; when the call returns that transaction is not
\* active; when the call fails the Database handles linked beneath the
\* Environment are those linked before it, and when it succeeds the handle
\* returned is linked.
C17_Step ==
    (/\ lastOp'.op = "env_open_db"
     /\ lastOp'.in.txn = 0
     /\ heap.valid[ENV]
     /\ lastOp'.res # "crash") =>
        /\ Cardinality(ImplicitCalls("mdb_txn_begin")') = 1
        /\ engine'.txn[ImplicitTxn].st # "active"
        /\ lastOp'.res = "ok" <=> lastOp'.in.fail = "none"
        /\ lastOp'.res # "ok" => /\ lastOp'.res = "EngineError"
                                 /\ LinkedDbs(heap') = LinkedDbs(heap)
        /\ lastOp'.res = "ok" => lastOp'.ret.node[2] \in LinkedDbs(heap')
        /\ CASE lastOp'.in.fail = "begin" ->
                    /\ ImplicitCalls("mdb_txn_commit")' = {}
                    /\ ImplicitCalls("mdb_txn_abort")' = {}
             [] lastOp'.in.fail = "open" ->
                    /\ ImplicitCalls("mdb_txn_commit")' = {}
                    /\ Cardinality(ImplicitCalls("mdb_txn_abort")') = 1
             [] OTHER ->
                    /\ Cardinality(ImplicitCalls("mdb_txn_commit")') = 1
                    /\ ImplicitCalls("mdb_txn_abort")' = {}

C17_OpenDbImplicit == [][lastOp = Idling => C17_Step]_vars

\* open_db whose commit the engine refuses: the handle made is destroyed.
C17_Witness ==
    /\ lastOp.op = "env_open_db"
    /\ lastOp.in.txn = 0
    /\ lastOp.in.fail = "commit"
    /\ lastOp.res = "EngineError"
    /\ \E d \in DbIds : heap.obj[D(d)] = "freed"
    /\ LinkedDbs(heap) = {0}

\* The top-level write / read transactions the engine has active.
TopWriters == {x \in EngTxnIds : /\ engine.txn[x].st = "active"
                                 /\ engine.txn[x].write
                                 /\ engine.txn[x].parent = NoTxn}
Readers == {x \in EngTxnIds : engine.txn[x].st = "active" /\ ~engine.txn[x].write}

\* What the last operation did as a writer inside its own transaction.
ImplicitWrites ==
    ImplicitCalls("mdb_put") \cup ImplicitCalls("mdb_del")
        \cup (IF lastOp.in.flag THEN ImplicitCalls("mdb_dbi_open") ELSE {})

\* C18: at most one top-level write transaction is active at any time, and
\* a put / puts / delete / deletes / named open_db on the Environment does
\* nothing as a writer while an explicit top-level write Transaction is
\* active.  Read transactions are not limited.
C18_SingleWriter ==
    /\ Cardinality(TopWriters) <= 1
    /\ (lastOp.op \in ImplicitOps \cup {"env_open_db"} /\ lastOp.in.txn = 0
            /\ TopWriters # {})
          => ImplicitWrites = {}

\* One writer and two readers active at the same time.
C18_Witness ==
    /\ Cardinality(TopWriters) = 1
    /\ Cardinality(Readers) = 2

\* C19: the valid flag of a handle that exists (Environment, Database,
\* Transaction, Cursor) never goes from false to true, whatever operation
\* runs.
C19_ValidMonotonic ==
    [][\A n \in Nodes : (heap.obj[n] # "none" /\ ~heap.valid[n]) => ~heap'.valid[n]]_vars

\* A call on a closed Environment while an invalid Database, Transaction
\* and Cursor still exist.
C19_Witness ==
    /\ ~heap.valid[ENV]
    /\ lastOp.res = "InvalidHandle"
    /\ \E d \in DbIds : heap.obj[D(d)] = "live" /\ ~heap.valid[D(d)]
    /\ \E x \in TransIds : heap.obj[T(x)] = "live" /\ ~heap.valid[T(x)]
    /\ \E c \in CursIds : heap.obj[C(c)] = "live" /\ ~heap.valid[C(c)]

\* C20: count() on a valid Cursor returns 0 when the Cursor is Unpositioned
\* and the number of values stored under the current key (one, in a
\* database without duplicates) when it is Positioned; it never raises.
C20_Count ==
    (lastOp.op = "cursor_count" /\ lastOp.res \notin {"InvalidHandle", "crash"}) =>
        /\ lastOp.res = "ok"
        /\ lastOp.ret = Val(IF heap.positioned[lastOp.node[2]] THEN 1 ELSE 0)

\* The steps of the last operation that cleared a valid flag.
ValidCleared == {j \in 1..Len(lastOp.ev) : lastOp.ev[j].ev = "valid0"}

\* C21: a valid Cursor has a valid Transaction and a valid Transaction has
\* a valid Environment, and whenever an operation clears the valid flag of
\* a handle, no handle beneath it (linked in its children list or pointing
\* to it as parent) is still valid at that moment.
C21_ValidTopDown ==
    /\ \A c \in CursIds :
          heap.valid[C(c)] =>
              heap.curs_trans[c] # NULL /\ heap.valid[heap.curs_trans[c]]
    /\ \A x \in TransIds :
          heap.valid[T(x)] =>
              heap.trans_env[x] # NULL /\ heap.valid[heap.trans_env[x]]
    /\ \A j \in ValidCleared : lastOp.ev[j].bad = {}

\* close() of an Environment with a Transaction that has a Cursor: three
\* flags are cleared, the Cursor's first and the Environment's last.
C21_Witness ==
    /\ lastOp.op = "env_close"
    /\ lastOp.res = "ok"
    /\ \E c \in CursIds, x \in TransIds, i, j, k \in ValidCleared :
          /\ i < j /\ j < k
          /\ lastOp.ev[i].n = C(c)
          /\ lastOp.ev[j].n = T(x)
          /\ lastOp.ev[k].n = ENV

\* The steps of the last operation that are the given engine call on the
\* engine object id.
EngineCalls(names, id) ==
    {j \in 1..Len(lastOp.ev) : lastOp.ev[j].ev \in names /\ lastOp.ev[j].n = <<"eng", id>>}
TxnEnds(t) == EngineCalls({"mdb_txn_commit", "mdb_txn_abort"}, t)
CursorCloses(c) == EngineCalls({"mdb_cursor_close"}, c)

\* The engine cursors opened in engine transaction t so far.
CursorsOf(t) == {c \in CursIds : engine.cur[c].st # "none" /\ engine.cur[c].txn = t}

\* mdb_cursor_close has been called on c before step j of the last
\* operation.
ClosedBefore(c, j) ==
    /\ engine.cur[c].st = "closed"
    /\ \A i \in CursorCloses(c) : i < j

\* C22: the engine close of each Cursor precedes the engine commit / abort
\* of its Transaction (also when the engine ends the transaction together
\* with its parent), and the engine commit / abort of every Transaction
\* precedes the engine close of the Environment.
C22_EngineOrder ==
    /\ \A t \in TransIds : \A j \in TxnEnds(t) : \A c \in CursorsOf(t) : ClosedBefore(c, j)
    /\ \A c \in CursIds : engine.cur[c].st # "reaped"
    /\ \A j \in EngineCalls({"mdb_env_close"}, 0) :
          /\ \A t \in EngTxnIds : engine.txn[t].st # "active"
          /\ \A t \in EngTxnIds : \A i \in TxnEnds(t) : i < j
\* The steps of the last operation that are the given step of the handle
\* layer on handle n.
HandleSteps(name, n) ==
    {j \in 1..Len(lastOp.ev) : lastOp.ev[j].ev = name /\ lastOp.ev[j].n = n}

\* The engine-level release of handle n among the steps of the last
\* operation: mdb_txn_abort for a Transaction, mdb_cursor_close for a Cursor.
EngineRelease(n) ==
    IF n[1] = "T" THEN EngineCalls({"mdb_txn_abort"}, n[2]) ELSE CursorCloses(n[2])

\* C23: when a Transaction or a Cursor is torn down by its clear routine,
\* the engine-level release (transaction abort / cursor close) comes first,
\* then the unlink from the parent's children list, then the release of the
\* owner reference to the parent.
C23_ClearOrder ==
    \A n \in {T(x) : x \in TransIds} \cup {C(c) : c \in CursIds} :
        \A u \in HandleSteps("unlink", n) :
            /\ \A e \in EngineRelease(n) : e < u
            /\ \A r \in HandleSteps("release", n) : u < r
\* The children list of a parent as the loop of invalidate() walks it, from
\* node n, at most fuel nodes.
RECURSIVE ListFrom(_, _, _)
ListFrom(h, n, fuel) ==
    IF n = NULL \/ fuel = 0 THEN <<>>
    ELSE <<n>> \o ListFrom(h, h.snext[n], fuel - 1)
ChildList(p) == ListFrom(heap, heap.chead[p], Cardinality(Nodes) + 1)

\* The parent pointer of a handle: Cursor -> trans, Transaction -> env,
\* Database -> env.
ParentOf(n) ==
    CASE n[1] = "C" -> heap.curs_trans[n[2]]
      [] n[1] = "T" -> heap.trans_env[n[2]]
      [] n[1] = "D" -> heap.db_env[n[2]]
      [] OTHER -> NULL
PointingTo(p) == {n \in Nodes : heap.obj[n] = "live" /\ ParentOf(n) = p}

\* C24: between operations the children list of each parent holds exactly
\* the handles not yet destroyed whose parent pointer is that parent, each
\* once; the head has no predecessor and the predecessor of each successor
\* is the node before it; no destroyed handle is on a list.
C24_ChildrenLists ==
    (fault = "none") =>
        \A p \in Nodes :
            LET L == ChildList(p) IN
            heap.obj[p] = "live" =>
                /\ {L[j] : j \in 1..Len(L)} = PointingTo(p)
                /\ \A i, j \in 1..Len(L) : L[i] = L[j] => i = j
                /\ Len(L) > 0 => heap.sprev[L[1]] = NULL
                /\ \A j \in 1..(Len(L) - 1) : heap.sprev[L[j + 1]] = L[j]
                /\ \A j \in 1..Len(L) : heap.obj[L[j]] = "live"
\* A handle has been unlinked from a list that still holds two others.
C24_Witness ==
    /\ fault = "none"
    /\ \E n \in Nodes : HandleSteps("unlink", n) # {}
    /\ Len(ChildList(ENV)) >= 2
    /\ \E x \in TransIds : Len(ChildList(T(x))) >= 1
\* The Environment has been closed or destroyed.
EnvGone == heap.obj[ENV] # "live" \/ ~heap.valid[ENV]

C25_Links ==
    \A d \in DbIds :
        heap.obj[D(d)] = "live" =>
            /\ heap.db_env[d] # NULL => heap.obj[heap.db_env[d]] = "live"
            /\ EnvGone => /\ ~heap.valid[D(d)]
                          /\ heap.db_env[d] = NULL
                          /\ heap.sprev[D(d)] = NULL /\ heap.snext[D(d)] = NULL
                          /\ D(d) \notin {ChildList(ENV)[j] : j \in 1..Len(ChildList(ENV))}

C25_Step ==
    (lastOp'.op = "env_open_db" /\ lastOp'.res # "crash")
        => heap'.refcnt[ENV] = heap.refcnt[ENV]

\* C25: opening a Database leaves the reference count of the Environment
\* as it was, and once the Environment is closed or destroyed every
\* Database still alive is invalid, has no Environment link and is on no
\* children list; a Database never links to a destroyed Environment.
C25_DbNoOwner ==
    /\ [](fault = "none" => C25_Links)
    /\ [][lastOp = Idling => C25_Step]_vars

\* The Environment has been destroyed while the program still holds a
\* Database that had been opened on it.
C25_Witness ==
    /\ fault = "none"
    /\ heap.obj[ENV] = "freed"
    /\ \E d \in DbIds : D(d) # MainDb /\ heap.obj[D(d)] = "live" /\ refs[D(d)]
\* begin has failed.
BeginFailed == lastOp.op = "env_begin" /\ lastOp.res \notin {"ok", "crash"}

C26_Step ==
    LET parent == lastOp'.in.txn
        write == lastOp'.in.flag
        usable == /\ heap.valid[ENV]
                  /\ parent # 0 => heap.valid[T(parent)]
    IN  (lastOp'.op = "env_begin" /\ lastOp'.res # "crash") =>
            /\ BeginFailed' => /\ heap' = heap
                               /\ engine'.txn = engine.txn
            /\ (usable /\ write /\ heap.readonly) =>
                    /\ BeginFailed'
                    /\ lastOp'.ev = <<>>
            /\ (heap.valid[ENV] /\ parent # 0 /\ ~heap.valid[T(parent)]) =>
                    lastOp'.res = "InvalidHandle"
            /\ (usable /\ ~(write /\ heap.readonly) /\ lastOp'.in.fail = "begin") =>
                    lastOp'.res = "EngineError"

\* C26: begin fails, creating and linking no Transaction and leaving every
\* handle, list and flag as it was, when write is requested on a read-only
\* Environment (no engine call is made), when the parent given is invalid
\* (InvalidHandle), and when mdb_txn_begin fails (EngineError).
C26_BeginFails == [][lastOp = Idling => C26_Step]_vars

\* mdb_txn_begin has failed on a read-only Environment that has a valid
\* Transaction and an ended one.
C26_Witness ==
    /\ BeginFailed
    /\ lastOp.in.fail = "begin" /\ lastOp.res = "EngineError"
    /\ heap.readonly
    /\ \E x, y \in TransIds : /\ heap.valid[T(x)]
                              /\ heap.obj[T(y)] = "live" /\ ~heap.valid[T(y)]
\* The engine operation a cursor move asks for.
MoveOp(op, key) ==
    CASE op = "cursor_first" -> "MDB_FIRST"
      [] op = "cursor_last" -> "MDB_LAST"
      [] op = "cursor_next" -> "MDB_NEXT"
      [] op = "cursor_prev" -> "MDB_PREV"
      [] op = "cursor_set_key" -> "MDB_SET_KEY"
      [] op = "cursor_set_range" -> IF key # 0 THEN "MDB_SET_RANGE" ELSE "MDB_FIRST"
      [] OTHER -> "none"
Moves == {"cursor_first", "cursor_last", "cursor_next", "cursor_prev",
          "cursor_set_key", "cursor_set_range"}

C27_Step ==
    LET c == lastOp'.node[2]
        cur == engine.cur[c]
        view == engine.txn[cur.txn].view
        k == Target(view, cur.pos, cur.del, lastOp'.in.key,
                    MoveOp(lastOp'.op, lastOp'.in.key))
        served == /\ CursorUsable([e |-> engine], c)
                  /\ ~TxnBlocked([e |-> engine], cur.txn)
    IN  (lastOp'.op \in Moves /\ heap.valid[C(c)] /\ lastOp'.res # "crash") =>
            /\ (served /\ k # 0) =>
                    /\ lastOp'.res = "ok" /\ lastOp'.ret = Bool(TRUE)
                    /\ heap'.positioned[c]
                    /\ heap'.key[c] = k /\ heap'.val[c] = view[k]
            /\ (served /\ k = 0) =>
                    /\ lastOp'.res = "ok" /\ lastOp'.ret = Bool(FALSE)
                    /\ ~heap'.positioned[c]
            /\ ~heap'.positioned[c] => heap'.key[c] = 0 /\ heap'.val[c] = 0

\* C27: a cursor move (first, last, next, prev, set_key, set_range) returns
\* True and leaves the Cursor Positioned with the entry found cached when
\* the engine finds an entry; it returns False, raising nothing, and leaves
\* the Cursor Unpositioned when the engine reports not-found; a Cursor
\* Unpositioned after a move has a cached key and value of length zero.
C27_Moves == [][lastOp = Idling => C27_Step]_vars

\* set_range past the last key on a Cursor that was Positioned: False, and
\* the cached key and value are empty.
C27_Witness ==
    /\ lastOp.op = "cursor_set_range" /\ lastOp.in.key = MaxKey
    /\ lastOp.res = "ok" /\ lastOp.ret = Bool(FALSE)
    /\ \E c \in CursIds :
          /\ lastOp.node = C(c)
          /\ engine.txn[engine.cur[c].txn].view[1] # 0
          /\ heap.key[c] = 0 /\ heap.val[c] = 0 /\ ~heap.positioned[c]
\* The store call of the last operation reached the engine.
StoreCalled ==
    \E j \in 1..Len(lastOp.ev) : lastOp.ev[j].ev \in {"mdb_put", "mdb_cursor_put"}

\* C28: Cursor.put hands the engine the flag set Transaction.put hands it
\* for the same dupdata / overwrite / append arguments; with none of them
\* passed it stores the pair and returns True wherever the key sorts among
\* the keys present.
C28_CursorPutFlags ==
    (lastOp.op = "cursor_put" /\ StoreCalled /\ lastOp.res # "crash") =>
        /\ lastOp.flags = PutFlags(ArgOr(lastOp.in.dupdata, FALSE),
                                   ArgOr(lastOp.in.overwrite, TRUE),
                                   ArgOr(lastOp.in.append, FALSE))
        /\ (/\ lastOp.in.dupdata = Absent
            /\ lastOp.in.overwrite = Absent
            /\ lastOp.in.append = Absent
            /\ lastOp.res = "ok")
                => /\ lastOp.ret = Bool(TRUE)
                   /\ engine.txn[engine.cur[lastOp.node[2]].txn].view[lastOp.in.key]
                          = lastOp.in.val
\* The engine calls among the steps ev of an operation.
EngSteps(ev) == {j \in 1..Len(ev) : ev[j].n[1] = "eng"}

\* What val_func yields for the cached entry (k, v).
Projected(func, k, v) ==
    CASE func = "key" -> Key(k)
      [] func = "value" -> Val(v)
      [] OTHER -> Item(k, v)

\* Construction by iternext() / iterprev() on a valid Cursor.
C29_Construct ==
    LET c == lastOp'.node[2]
        cur == engine.cur[c]
        view == engine.txn[cur.txn].view
        pos_op == IF lastOp'.op = "cursor_iternext" THEN "MDB_FIRST" ELSE "MDB_LAST"
        served == /\ CursorUsable([e |-> engine], c)
                  /\ ~TxnBlocked([e |-> engine], cur.txn)
    IN  (/\ lastOp'.op \in {"cursor_iternext", "cursor_iterprev"}
         /\ heap.valid[C(c)]
         /\ lastOp'.res # "crash") =>
            /\ heap.positioned[c] =>
                    /\ EngSteps(lastOp'.ev) = {}
                    /\ engine' = engine
                    /\ heap'.positioned[c]
                    /\ heap'.key[c] = heap.key[c] /\ heap'.val[c] = heap.val[c]
            /\ (~heap.positioned[c] /\ served) =>
                    /\ Cardinality(EngSteps(lastOp'.ev)) = 1
                    /\ heap'.key[c] = Target(view, cur.pos, cur.del, 0, pos_op)

\* The first step of an Iterator over a valid Cursor.
C29_FirstStep ==
    LET i == lastOp'.node[2]
        c == heap.iter_curs[i][2]
    IN  (/\ lastOp'.op = "iter_next"
         /\ ~heap.iter_started[i]
         /\ heap.valid[C(c)]
         /\ lastOp'.res # "crash") =>
            /\ EngSteps(lastOp'.ev) = {}
            /\ engine' = engine
            /\ heap'.key[c] = heap.key[c] /\ heap'.val[c] = heap.val[c]
            /\ heap.positioned[c] =>
                    /\ lastOp'.res = "ok"
                    /\ lastOp'.ret = Projected(heap.iter_val_func[i], heap.key[c],
                                               heap.val[c])
            /\ ~heap.positioned[c] => lastOp'.res = "StopIteration"

\* C29: constructing an Iterator moves the Cursor to the first (forward) or
\* last (backward) entry only when the Cursor has no position, and leaves a
\* Positioned Cursor where it is; the first step of the Iterator makes no
\* engine call and yields the entry the Cursor holds, so an Iterator made on
\* a Cursor Positioned at k starts at k.
C29_IterStart == [][lastOp = Idling => (C29_Construct /\ C29_FirstStep)]_vars

\* A forward Iterator made on a Cursor Positioned at the last key, with a
\* smaller key present, has just yielded that last key as its first entry.
C29_Witness ==
    /\ lastOp.op = "iter_next" /\ lastOp.res = "ok"
    /\ lastOp.ret.key = MaxKey
    /\ \E i \in IterIds :
          /\ lastOp.node = I(i)
          /\ heap.iter_op[i] = "MDB_NEXT"
          /\ engine.txn[engine.cur[heap.iter_curs[i][2]].txn].view[1] # 0
    /\ hist.it.ph = "run" /\ ~hist.it.fresh /\ Len(hist.it.seq) = 1
C30_Step ==
    (/\ lastOp'.op = "iter_next"
     /\ lastOp'.node[2] \in hist.it.stop
     /\ lastOp'.res # "crash") => lastOp'.res # "ok"

\* C30: once a step of an Iterator has ended the sequence, every later step
\* of that Iterator ends it again and yields nothing, whatever has been done
\* through its Cursor (first, last, set_key, set_range, put) in between.
C30_NonRestartable == [][lastOp = Idling => C30_Step]_vars

\* Where the claim places the start of _iter_from(key, reverse) over view:
\* the range seek of a given key, else the first (forward) or last (reverse)
\* key; 0 when there is no such entry.
StartOf(view, key, reverse) ==
    IF key # 0 THEN Target(view, 0, FALSE, key, "MDB_SET_RANGE")
    ELSE IF reverse THEN Target(view, 0, FALSE, 0, "MDB_LAST")
    ELSE Target(view, 0, FALSE, 0, "MDB_FIRST")

\* Construction by _iter_from on a valid Cursor the engine serves.
C31_Construct ==
    LET c == lastOp'.node[2]
        cur == engine.cur[c]
        view == engine.txn[cur.txn].view
        start == StartOf(view, lastOp'.in.key, lastOp'.in.flag)
    IN  (/\ lastOp'.op = "cursor_iter_from"
         /\ heap.valid[C(c)]
         /\ CursorUsable([e |-> engine], c)
         /\ ~TxnBlocked([e |-> engine], cur.txn)
         /\ lastOp'.res # "crash"
         /\ start # 0) =>
            /\ lastOp'.res = "ok"
            /\ heap'.positioned[c]
            /\ heap'.key[c] = start /\ heap'.val[c] = view[start]

\* The first step of an Iterator made by _iter_from yields the entry its
\* Cursor holds.
C31_FirstStep ==
    LET i == lastOp'.node[2]
        c == heap.iter_curs[i][2]
    IN  (/\ lastOp'.op = "iter_next"
         /\ ~heap.iter_started[i]
         /\ heap.valid[C(c)] /\ heap.positioned[c]
         /\ lastOp'.res # "crash") =>
            /\ lastOp'.res = "ok"
            /\ lastOp'.ret = Item(heap.key[c], heap.val[c])

\* C31: _iter_from places its Cursor by a range seek on the key when a key
\* is given; without a key it places it on the first entry when forward and
\* on the last entry when reverse; the first step of the Iterator yields the
\* entry the Cursor was placed on.
C31_IterFrom == [][lastOp = Idling => (C31_Construct /\ C31_FirstStep)]_vars

\* The buffer object b shows nothing: zero length, not pointing into engine
\* memory.
Emptied(b) ==
    /\ heap.buf[b].b_size = 0
    /\ heap.buf[b].b_ptr \in {NULL, Static}

\* C32: in buffering mode the key and value buffer objects of a Cursor that
\* is no longer valid (after commit, abort, Environment close or its own
\* destruction) have length zero and do not point into engine memory, and
\* the Cursor holds neither them nor its pair any more.
C32_ViewsReset ==
    fault = "none" =>
        \A c \in CursIds :
            (heap.obj[C(c)] # "none" /\ ~heap.valid[C(c)]) =>
                /\ Emptied(KeyBuf(c)) /\ Emptied(ValBuf(c))
                /\ heap.bufp[KeyBuf(c)] = NULL /\ heap.bufp[ValBuf(c)] = NULL
                /\ ~heap.item_tup[c]

\* A commit has just invalidated a Cursor whose pair had been handed out:
\* both buffer objects now show the empty literal.
C32_Witness ==
    /\ lastOp.op = "trans_commit" /\ lastOp.res = "ok"
    /\ \E c \in CursIds :
          /\ heap.curs_trans[c] = NULL /\ ~heap.valid[C(c)]
          /\ heap.buf[KeyBuf(c)].b_ptr = Static
          /\ heap.buf[ValBuf(c)].b_ptr = Static

\* C40: in buffering mode the buffer object handed out by Transaction.get
\* has length zero and does not point into engine memory once the
\* Transaction is no longer valid (committed, aborted, or invalidated by a
\* cascade).
C40_TransViewReset ==
    fault = "none" =>
        \A t \in TransIds :
            (heap.obj[T(t)] # "none" /\ ~heap.valid[T(t)]) => Emptied(GetBuf(t))

\* The cached entry of every valid Cursor against its engine cursor: a
\* Positioned Cursor caches the entry the engine cursor is on, an
\* Unpositioned one has an engine cursor without a position.
C38_Cached ==
    \A c \in CursIds :
        (heap.valid[C(c)] /\ CursorUsable([e |-> engine], heap.curs_curs[c])) =>
            LET cur == engine.cur[heap.curs_curs[c]]
            IN  IF heap.positioned[c]
                THEN /\ cur.pos = heap.key[c]
                     /\ engine.txn[cur.txn].view[cur.pos] = heap.val[c]
                ELSE cur.pos = 0

\* A delete that reports success removed the entry under the cached key and
\* nothing else.
C38_Delete ==
    LET c == lastOp'.node[2]
        txn == engine.cur[heap.curs_curs[c]].txn
    IN  (/\ lastOp'.op = "cursor_delete"
         /\ lastOp'.res = "ok" /\ lastOp'.ret = Bool(TRUE)) =>
            engine'.txn[txn].view = [engine.txn[txn].view EXCEPT ![heap.key[c]] = 0]

\* C38: after any sequence of operations of a Cursor, put included, a
\* Positioned Cursor caches the entry at its engine cursor's position and an
\* Unpositioned Cursor has no engine position; so delete removes exactly the
\* entry whose key the Cursor reports.
C38_CacheMatchesEngine ==
    /\ [](fault = "none" => C38_Cached)
    /\ [][lastOp = Idling => C38_Delete]_vars

\* The number of steps named name of handle n among the first j steps of ev.
StepsBefore(ev, name, n, j) ==
    Cardinality({i \in 1..j : ev[i].ev = name /\ ev[i].n = n})

\* C37: no Transaction is destroyed while its own clear routine is running:
\* whenever an operation frees a Transaction, every entry into that
\* Transaction's clear routine has returned before; and no operation ends in
\* a use of freed memory.
C37_NoFreeInsideClear ==
    /\ fault # "use_after_free"
    /\ \A j \in 1..Len(lastOp.ev) :
          (lastOp.ev[j].ev = "free" /\ lastOp.ev[j].n[1] = "T") =>
              StepsBefore(lastOp.ev, "clear", lastOp.ev[j].n, j)
                  = StepsBefore(lastOp.ev, "cleared", lastOp.ev[j].n, j)

\* C39: with one thread every call returns: a call that has been made (and
\* has not crashed for another reason) is followed by the program being idle
\* again; in particular put, delete, puts, deletes and open_db of a named
\* database return when the thread holds an active write Transaction.
C39_Returns ==
    (lastOp # Idling /\ fault \in {"none", "writer_self_deadlock"}) ~> (lastOp = Idling)

\* C33: with the switch on, every engine call is made by a thread that has
\* released the host lock.
C33_CallsUnlocked ==
    (host.drop_gil /\ host.call.name # "none") => ~host.call.held

\* C34: in every interleaving the links of the tree and the valid flags are
\* written only by a thread holding the host lock: no thread has written
\* one between a release and the reacquire that follows it.
C34_WritesUnderLock == ~host.unheld

\* With the switch on, a thread has ended a Transaction (its valid flag is
\* cleared and it is unlinked) after releasing and retaking the lock, while
\* the other thread stands inside a handler.
C34_Witness ==
    /\ host.drop_gil /\ fault = "none"
    /\ \E p, q \in Threads :
          /\ p # q
          /\ host.thr[p].st = "returned" /\ host.thr[p].locks >= 1
          /\ host.thr[p].res = "ok"
          /\ host.thr[q].st \in {"call", "called"}
    /\ \E t \in TransIds : heap.obj[T(t)] = "live" /\ ~heap.valid[T(t)]

\* The lock as each thread stands: a thread inside a handler holds it
\* unless it stands between a release and the reacquire; a thread that has
\* returned holds it and has retaken it as often as it released it; and
\* nothing is released while the switch is off.
C35_Held ==
    \A p \in Threads :
        LET th == host.thr[p] IN
        /\ (th.st = "returned") =>
                (host.gil = p /\ ~th.saved /\ th.drops = th.locks)
        /\ (th.st \in {"call", "called"} /\ ~th.saved) => host.gil = p
        /\ th.saved => (host.drop_gil /\ th.drops = th.locks + 1)
        /\ ~host.drop_gil => (th.drops = 0 /\ (th.st # "idle" => host.gil = p))

\* C35: one switch governs the release of the host lock: while it is off no
\* operation releases the lock, once on it stays on, and every release is
\* followed by one reacquire by the same thread before the operation
\* returns, so a thread holds the lock whenever an operation returns.
C35_OneSwitch ==
    /\ [](fault = "none" => C35_Held)
    /\ [][host.drop_gil => host'.drop_gil]_vars

\* With the switch on, a commit has released and retaken the lock twice
\* (around the close of its Cursor and around the engine commit) and
\* returned while the other thread waits for the lock.
C35_Witness ==
    /\ host.drop_gil /\ fault = "none"
    /\ \E p, q \in Threads :
          /\ p # q
          /\ host.thr[p].st = "returned" /\ host.thr[p].drops = 2
          /\ host.gil = p
          /\ host.thr[q].st = "called" /\ host.thr[q].saved

\* C36: in every interleaving of two threads each engine transaction is
\* committed or aborted at most once, each engine cursor is closed at most
\* once, and no engine call is made on a resource that has been released.
C36_ReleasedOnce ==
    /\ \A n \in Nodes : engine.rel[n] <= 1
    /\ fault \notin {"txn_released_twice", "cursor_closed_twice",
                     "txn_used_after_release", "cursor_used_after_close"}
====
